---- MODULE Spec2Model ----
(***************************************************************************)
(* Debugforce: the log classification and report-synthesis core.           *)
(*                                                                         *)
(* Strings are TLA+ strings (sequences of characters): a log is the text   *)
(* the code receives, newline characters included, and the string          *)
(* operations of the code (split, trim, includes, the two regular          *)
(* expressions, parseInt, template literals) are operators on them.        *)
(***************************************************************************)
EXTENDS Integers, Sequences, FiniteSets, TLC

VARIABLES
    input,        \* history: the lexicon lines the analysed text was built from
    filename,     \* analyzeLogContent: argument
    content,      \* analyzeLogContent: argument
    analysis,     \* analyzeLogContent: the returned LogAnalysis (None before a call)
    keyInput,     \* history: the lexicon lines the extracted text was built from
    logContent,   \* extractKeyLines: argument
    maxLines,     \* extractKeyLines: argument
    keyLines,     \* extractKeyLines: outcome [kind, value] (None before a call)
    options,      \* generateAnalysisContent: argument (None when not called)
    now,          \* generateAnalysisContent: what new Date().toISOString() gives
    packet,       \* generateAnalysisContent: outcome [kind, value] (None before a call)
    workspace,    \* analyzeLogsLocally: the open workspace and its logs folder
    report,       \* analyzeLogsLocally: outcome [kind, value] (None before a call)
    calls,        \* history: the analyzer and extractor calls made so far
    cliUser,      \* environment: the user the Salesforce CLI is logged in as
    clock,        \* environment: what Date.now() gives, in ms
    cachedUserInfo,  \* userContext: module variable (None for null)
    cacheTimestamp,  \* userContext: module variable
    fetch,        \* fetchLogs: position, locals and outcome of the call
    userCalls,    \* getCurrentUser: position, locals and outcome of each call
    cacheHistory, \* history: completed CLI fetches and clearUserCache calls
    provider,     \* LogTreeDataProvider: which of the two classes was constructed
    logs,         \* LogTreeDataProvider: this.logs
    backgroundInterval,   \* backgroundTask: module variable (0 for undefined)
    setupTimestamp,       \* backgroundTask: module variable (0 for undefined)
    traceDurationMinutes, \* backgroundTask: module variable
    globalState,  \* backgroundTask: the two keys kept in context.globalState
    timers,       \* environment: pending setTimeout and setInterval timers
    ticks,        \* history: the timer callbacks run, and whether they queried for logs
    started,      \* history: the startBackgroundTask calls made
    traceFlags,   \* environment: the user's DEVELOPER_LOG TraceFlags in the org
    setup         \* setupDebugLogging: position, locals and outcome of the call

vars == <<input, filename, content, analysis,
          keyInput, logContent, maxLines, keyLines, options, now, packet,
          workspace, report, calls,
          cliUser, clock, cachedUserInfo, cacheTimestamp, fetch,
          userCalls, cacheHistory, provider, logs,
          backgroundInterval, setupTimestamp, traceDurationMinutes,
          globalState, timers, ticks, started, traceFlags, setup>>

analyzerVars == <<input, filename, content, analysis>>
extractorVars == <<keyInput, logContent, maxLines, keyLines>>
packetVars == <<options, now, packet>>
aggregatorVars == <<workspace, report>>
sessionVars == <<calls>>
userVars == <<cliUser, clock, cachedUserInfo, cacheTimestamp>>
fetchVars == <<fetch>>
userCallVars == <<userCalls, cacheHistory>>
treeVars == <<provider, logs>>
backgroundVars == <<backgroundInterval, setupTimestamp, traceDurationMinutes,
                    globalState, timers, ticks, started>>
traceVars == <<traceFlags, setup>>
shellVars == <<userCallVars, treeVars, backgroundVars, traceVars>>

None == [kind |-> "none"]

-----------------------------------------------------------------------------
(* Bounds of the model *)

\* longest log, in lines, given to analyzeLogContent
MaxLogLines == 3

-----------------------------------------------------------------------------
(* JavaScript string primitives *)

Char(s, i) == SubSeq(s, i, i)

\* String.prototype.includes
includes(s, t) ==
    \E i \in 1..(Len(s) - Len(t) + 1) : SubSeq(s, i, i + Len(t) - 1) = t

\* white space removed by String.prototype.trim and matched by \s
WhiteSpace == {" ", "\t", "\n", "\r", "\f"}

\* characters the regular expression `.` does not match
LineTerminator == {"\n", "\r"}

Digit == {"0", "1", "2", "3", "4", "5", "6", "7", "8", "9"}

\* String.prototype.trim
trim(s) ==
    LET keep == {i \in 1..Len(s) : Char(s, i) \notin WhiteSpace}
    IN  IF keep = {} THEN ""
        ELSE SubSeq(s, CHOOSE i \in keep : \A j \in keep : i <= j,
                       CHOOSE i \in keep : \A j \in keep : j <= i)

\* index of the first "\n" at or after from, 0 when there is none
nextNewline(s, from) ==
    LET hits == {i \in from..Len(s) : Char(s, i) = "\n"}
    IN  IF hits = {} THEN 0 ELSE CHOOSE i \in hits : \A j \in hits : i <= j

RECURSIVE splitFrom(_, _)
splitFrom(s, from) ==
    LET nl == nextNewline(s, from)
    IN  IF nl = 0 THEN <<SubSeq(s, from, Len(s))>>
        ELSE <<SubSeq(s, from, nl - 1)>> \o splitFrom(s, nl + 1)

\* content.split('\n')
split(s) == splitFrom(s, 1)

RECURSIVE join(_, _)
\* Array.prototype.join
join(parts, sep) ==
    IF parts = <<>> THEN ""
    ELSE IF Len(parts) = 1 THEN parts[1]
    ELSE parts[1] \o sep \o join(Tail(parts), sep)

DigitValue(c) ==
    CASE c = "0" -> 0 [] c = "1" -> 1 [] c = "2" -> 2 [] c = "3" -> 3
      [] c = "4" -> 4 [] c = "5" -> 5 [] c = "6" -> 6 [] c = "7" -> 7
      [] c = "8" -> 8 [] c = "9" -> 9

RECURSIVE parseInt(_)
\* parseInt of a non-empty run of decimal digits
parseInt(s) ==
    IF Len(s) = 1 THEN DigitValue(s)
    ELSE 10 * parseInt(SubSeq(s, 1, Len(s) - 1)) + DigitValue(Char(s, Len(s)))

Least(S) == CHOOSE i \in S : \A j \in S : i <= j

\* end of the longest run of characters of class cls starting at from
\* (from - 1 when there is no such character at from)
runEnd(s, from, cls) ==
    LET stops == {i \in from..Len(s) : Char(s, i) \notin cls}
    IN  IF stops # {} THEN Least(stops) - 1
        ELSE IF from > Len(s) THEN from - 1 ELSE Len(s)

\* end of the longest run of characters `.` matches, starting at from
dotEnd(s, from) ==
    LET stops == {i \in from..Len(s) : Char(s, i) \in LineTerminator}
    IN  IF stops # {} THEN Least(stops) - 1
        ELSE IF from > Len(s) THEN from - 1 ELSE Len(s)

NoMatch == [matched |-> FALSE]

\* line.match(/LIMIT_USAGE.*?\|(.+)/): leftmost start, lazy .*? up to the
\* first pipe that has a character `.` matches after it, greedy group 1
limitMatch(line) ==
    LET tok == "LIMIT_USAGE"
        after(i) == i + Len(tok)
        pipesAt(i) == {p \in after(i)..dotEnd(line, after(i)) :
                          Char(line, p) = "|" /\ p + 1 <= dotEnd(line, after(i))}
        starts == {i \in 1..(Len(line) - Len(tok) + 1) :
                      SubSeq(line, i, i + Len(tok) - 1) = tok /\ pipesAt(i) # {}}
    IN  IF starts = {} THEN NoMatch
        ELSE LET i == Least(starts)
                 p == Least(pipesAt(i))
             IN  [matched |-> TRUE,
                  group1 |-> SubSeq(line, p + 1, dotEnd(line, after(i)))]

\* limitInfo.match(/(\d+)\s*out of\s*(\d+)/): leftmost start, every
\* quantifier greedy (no shorter take can succeed: the character after a
\* run is not in the run's class)
outOfMatch(info) ==
    LET usedEnd(i) == runEnd(info, i, Digit)
        wordAt(i) == runEnd(info, usedEnd(i) + 1, WhiteSpace) + 1
        maxAt(i) == runEnd(info, wordAt(i) + 6, WhiteSpace) + 1
        maxEnd(i) == runEnd(info, maxAt(i), Digit)
        okAt(i) == /\ usedEnd(i) >= i
                   /\ wordAt(i) + 5 <= Len(info)
                   /\ SubSeq(info, wordAt(i), wordAt(i) + 5) = "out of"
                   /\ maxEnd(i) >= maxAt(i)
        starts == {i \in 1..Len(info) : okAt(i)}
    IN  IF starts = {} THEN NoMatch
        ELSE LET i == Least(starts)
             IN  [matched |-> TRUE,
                  group1 |-> SubSeq(info, i, usedEnd(i)),
                  group2 |-> SubSeq(info, maxAt(i), maxEnd(i))]

\* ratioAbove80 with a fault: the threshold itself counts (>= 0.8)
ratioAtLeast80(used, max) ==
    IF max = 0 THEN used > 0 ELSE 5 * used >= 4 * max

\* used / max > 0.8 on JavaScript numbers: x / 0 is Infinity for x > 0 and
\* NaN (never greater) for x = 0
ratioAbove80(used, max) ==
    IF max = 0 THEN used > 0 ELSE 5 * used > 4 * max

-----------------------------------------------------------------------------
(* Log Analyzer: analyzeLogContent *)

EmptyAnalysis(f) ==
    [filename |-> f, hasErrors |-> FALSE, exceptions |-> <<>>,
     fatalErrors |-> <<>>, limitIssues |-> <<>>, flowErrors |-> <<>>,
     validationErrors |-> <<>>, summary |-> ""]

isException(line) ==
    includes(line, "EXCEPTION_THROWN") \/ includes(line, "UNHANDLED_EXCEPTION")

\* isFatalError with a fault: the test for 'System.' is missing
isFatalErrorTokenOnly(line) == includes(line, "FATAL_ERROR")

isFatalError(line) ==
    includes(line, "FATAL_ERROR") \/ includes(line, "System.")

\* isLimitIssue with a fault: a line whose numbers cannot be read is reported
isLimitIssueLenient(line) ==
    /\ includes(line, "LIMIT_USAGE") \/ includes(line, "MAXIMUM_LIMIT_USAGE")
    /\ LET limitMatched == limitMatch(line)
       IN  /\ limitMatched.matched
           /\ LET limitValues == outOfMatch(trim(limitMatched.group1))
              IN  limitValues.matched =>
                      ratioAbove80(parseInt(limitValues.group1),
                                   parseInt(limitValues.group2))

isLimitIssue(line) ==
    /\ includes(line, "LIMIT_USAGE") \/ includes(line, "MAXIMUM_LIMIT_USAGE")
    /\ LET limitMatched == limitMatch(line)
       IN  /\ limitMatched.matched
           /\ LET limitValues == outOfMatch(trim(limitMatched.group1))
              IN  /\ limitValues.matched
                  /\ ratioAbove80(parseInt(limitValues.group1),
                                  parseInt(limitValues.group2))

isFlowError(line) ==
    \/ includes(line, "FLOW_ELEMENT_ERROR")
    \/ includes(line, "FLOW_ELEMENT_FAULT")
    \/ includes(line, "FLOW_CREATE_INTERVIEW_ERROR")

isValidationError(line) ==
    includes(line, "VALIDATION_FAIL") \/ includes(line, "VALIDATION_ERROR")

\* scanLine with a fault: the validation branch forgets hasErrors = true
scanLineNoFlag(a, line) ==
    LET a1 == IF isException(line)
              THEN [a EXCEPT !.exceptions = Append(@, trim(line)),
                             !.hasErrors = TRUE]
              ELSE a
        a2 == IF isFatalError(line)
              THEN [a1 EXCEPT !.fatalErrors = Append(@, trim(line)),
                              !.hasErrors = TRUE]
              ELSE a1
        a3 == IF isLimitIssue(line)
              THEN [a2 EXCEPT !.limitIssues = Append(@, trim(line)),
                              !.hasErrors = TRUE]
              ELSE a2
        a4 == IF isFlowError(line)
              THEN [a3 EXCEPT !.flowErrors = Append(@, trim(line)),
                              !.hasErrors = TRUE]
              ELSE a3
    IN  IF isValidationError(line)
        THEN [a4 EXCEPT !.validationErrors = Append(@, trim(line))]
        ELSE a4

\* scanLine with a fault: the checks are chained with else-if, one bucket a line
scanLineExclusive(a, line) ==
    IF isException(line)
    THEN [a EXCEPT !.exceptions = Append(@, trim(line)), !.hasErrors = TRUE]
    ELSE IF isFatalError(line)
    THEN [a EXCEPT !.fatalErrors = Append(@, trim(line)), !.hasErrors = TRUE]
    ELSE IF isLimitIssue(line)
    THEN [a EXCEPT !.limitIssues = Append(@, trim(line)), !.hasErrors = TRUE]
    ELSE IF isFlowError(line)
    THEN [a EXCEPT !.flowErrors = Append(@, trim(line)), !.hasErrors = TRUE]
    ELSE IF isValidationError(line)
    THEN [a EXCEPT !.validationErrors = Append(@, trim(line)),
                   !.hasErrors = TRUE]
    ELSE a

\* one iteration of the scan loop
scanLine(a, line) ==
    LET a1 == IF isException(line)
              THEN [a EXCEPT !.exceptions = Append(@, trim(line)),
                             !.hasErrors = TRUE]
              ELSE a
        a2 == IF isFatalError(line)
              THEN [a1 EXCEPT !.fatalErrors = Append(@, trim(line)),
                              !.hasErrors = TRUE]
              ELSE a1
        a3 == IF isLimitIssue(line)
              THEN [a2 EXCEPT !.limitIssues = Append(@, trim(line)),
                              !.hasErrors = TRUE]
              ELSE a2
        a4 == IF isFlowError(line)
              THEN [a3 EXCEPT !.flowErrors = Append(@, trim(line)),
                              !.hasErrors = TRUE]
              ELSE a3
    IN  IF isValidationError(line)
        THEN [a4 EXCEPT !.validationErrors = Append(@, trim(line)),
                        !.hasErrors = TRUE]
        ELSE a4

RECURSIVE scanLines(_, _)
scanLines(a, lines) ==
    IF lines = <<>> THEN a
    ELSE scanLines(scanLine(a, Head(lines)), Tail(lines))

\* the template literal `${n} label`
fragment(n, label) == ToString(n) \o label

\* summaryOf with a fault: flow errors are listed before limit warnings
summaryOfFlowFirst(a) ==
    IF a.hasErrors
    THEN LET p1 == IF Len(a.exceptions) > 0
                   THEN <<fragment(Len(a.exceptions), " exception(s)")>>
                   ELSE <<>>
             p2 == IF Len(a.fatalErrors) > 0
                   THEN <<fragment(Len(a.fatalErrors), " fatal error(s)")>>
                   ELSE <<>>
             p3 == IF Len(a.limitIssues) > 0
                   THEN <<fragment(Len(a.limitIssues), " limit warning(s)")>>
                   ELSE <<>>
             p4 == IF Len(a.flowErrors) > 0
                   THEN <<fragment(Len(a.flowErrors), " flow error(s)")>>
                   ELSE <<>>
             p5 == IF Len(a.validationErrors) > 0
                   THEN <<fragment(Len(a.validationErrors), " validation error(s)")>>
                   ELSE <<>>
         IN  join(p1 \o p2 \o p4 \o p3 \o p5, ", ")
    ELSE a.summary

\* the summary built after the scan
summaryOf(a) ==
    IF a.hasErrors
    THEN LET p1 == IF Len(a.exceptions) > 0
                   THEN <<fragment(Len(a.exceptions), " exception(s)")>>
                   ELSE <<>>
             p2 == IF Len(a.fatalErrors) > 0
                   THEN <<fragment(Len(a.fatalErrors), " fatal error(s)")>>
                   ELSE <<>>
             p3 == IF Len(a.limitIssues) > 0
                   THEN <<fragment(Len(a.limitIssues), " limit warning(s)")>>
                   ELSE <<>>
             p4 == IF Len(a.flowErrors) > 0
                   THEN <<fragment(Len(a.flowErrors), " flow error(s)")>>
                   ELSE <<>>
             p5 == IF Len(a.validationErrors) > 0
                   THEN <<fragment(Len(a.validationErrors), " validation error(s)")>>
                   ELSE <<>>
         IN  join(p1 \o p2 \o p3 \o p4 \o p5, ", ")
    ELSE a.summary

analyzeLogContent(f, c) ==
    LET a == scanLines(EmptyAnalysis(f), split(c))
    IN  [a EXCEPT !.summary = summaryOf(a)]

-----------------------------------------------------------------------------
(* Key-Line Extractor: extractKeyLines *)

errorTokens ==
    <<"EXCEPTION_THROWN", "FATAL_ERROR", "UNHANDLED_EXCEPTION",
      "SYSTEM_MODE_ENTER", "FLOW_ELEMENT_ERROR", "FLOW_ELEMENT_FAULT",
      "FLOW_CREATE_INTERVIEW_ERROR">>

infoTokens ==
    <<"LIMIT_USAGE", "MAXIMUM_LIMIT_USAGE", "SOQL_EXECUTE_BEGIN", "DML_BEGIN",
      "FLOW_START_INTERVIEW", "FLOW_INTERVIEW_FINISHED", "CALLOUT_REQUEST",
      "CODE_UNIT_STARTED", "CODE_UNIT_FINISHED", "EXECUTION_STARTED",
      "EXECUTION_FINISHED">>

\* tokens.some(token => line.includes(token))
someToken(tokens, line) == \E i \in 1..Len(tokens) : includes(line, tokens[i])

\* Array.prototype.slice(0, end)
slice0(a, end) ==
    LET to == IF end < 0 THEN (IF Len(a) + end < 0 THEN 0 ELSE Len(a) + end)
              ELSE IF end > Len(a) THEN Len(a) ELSE end
    IN  SubSeq(a, 1, to)

\* the loop's state before the first line
NoKeyLines == [errorLines |-> <<>>, infoLines |-> <<>>, seen |-> {}]

\* keyLineStep with a fault: the earlier policy, the first max matches of one
\* merged token list
keyLineStepMerged(st, line, max) ==
    LET trimmed == trim(line)
    IN  IF trimmed = "" \/ trimmed \in st.seen THEN st
        ELSE IF /\ someToken(errorTokens, line) \/ someToken(infoTokens, line)
                /\ Len(st.errorLines) < max
        THEN [st EXCEPT !.errorLines = Append(@, trimmed),
                        !.seen = @ \cup {trimmed}]
        ELSE st

\* keyLineStep with a fault: the seen set holds the raw lines, not the trimmed
keyLineStepRawSeen(st, line, max) ==
    LET trimmed == trim(line)
    IN  IF trimmed = "" \/ line \in st.seen THEN st
        ELSE IF someToken(errorTokens, line)
        THEN [st EXCEPT !.errorLines = Append(@, trimmed),
                        !.seen = @ \cup {line}]
        ELSE IF someToken(infoTokens, line) /\ Len(st.infoLines) < max
        THEN [st EXCEPT !.infoLines = Append(@, trimmed),
                        !.seen = @ \cup {line}]
        ELSE st

\* keyLineStep with a fault: an informational line is not added to seen
keyLineStepInfoUnseen(st, line, max) ==
    LET trimmed == trim(line)
    IN  IF trimmed = "" \/ trimmed \in st.seen THEN st
        ELSE IF someToken(errorTokens, line)
        THEN [st EXCEPT !.errorLines = Append(@, trimmed),
                        !.seen = @ \cup {trimmed}]
        ELSE IF someToken(infoTokens, line) /\ Len(st.infoLines) < max
        THEN [st EXCEPT !.infoLines = Append(@, trimmed)]
        ELSE st

\* one iteration of the loop over the lines
keyLineStep(st, line, max) ==
    LET trimmed == trim(line)
    IN  IF trimmed = "" \/ trimmed \in st.seen THEN st
        ELSE IF someToken(errorTokens, line)
        THEN [st EXCEPT !.errorLines = Append(@, trimmed),
                        !.seen = @ \cup {trimmed}]
        ELSE IF someToken(infoTokens, line) /\ Len(st.infoLines) < max
        THEN [st EXCEPT !.infoLines = Append(@, trimmed),
                        !.seen = @ \cup {trimmed}]
        ELSE st

RECURSIVE keyLineLoop(_, _, _)
keyLineLoop(st, lines, max) ==
    IF lines = <<>> THEN st
    ELSE keyLineLoop(keyLineStep(st, Head(lines), max), Tail(lines), max)

\* combine with a fault: the final slice is missing
combineNoSlice(st, max) == st.errorLines \o st.infoLines

\* combine with a fault: the informational lines are put first
combineInfoFirst(st, max) == slice0(st.infoLines \o st.errorLines, max)

\* combined = [...errorLines, ...infoLines]; return combined.slice(0, maxLines)
combine(st, max) == slice0(st.errorLines \o st.infoLines, max)

extractKeyLines(c, max) ==
    combine(keyLineLoop(NoKeyLines, split(c), max), max)

errorIndicators ==
    <<"EXCEPTION_THROWN", "FATAL_ERROR", "UNHANDLED_EXCEPTION",
      "FLOW_ELEMENT_ERROR", "FLOW_ELEMENT_FAULT", "FLOW_CREATE_INTERVIEW_ERROR",
      "System.LimitException", "System.QueryException", "System.DmlException",
      "System.NullPointerException">>

\* hasErrors of the key-line module:
\* errorIndicators.some(indicator => logContent.includes(indicator))
hasErrors(c) == someToken(errorIndicators, c)

\* the outcome of a call that returned v; the code has no throw statement
Return(v) == [kind |-> "return", value |-> v]

-----------------------------------------------------------------------------
(* Analysis-Packet Synthesizer: generateAnalysisContent *)

\* maxLines of the packet's key extracts
PacketMaxLines == 300

\* characters of the model's texts that take two and three bytes in UTF-8;
\* every other character of the texts is ASCII
TwoByteChars == {"é"}
ThreeByteChars == {"€"}

utf8Width(c) ==
    IF c \in TwoByteChars THEN 2 ELSE IF c \in ThreeByteChars THEN 3 ELSE 1

RECURSIVE byteLength(_)
\* Buffer.byteLength(s, 'utf8')
byteLength(s) == IF s = "" THEN 0 ELSE utf8Width(Head(s)) + byteLength(Tail(s))

\* String.prototype.substring(0, end), end counted in UTF-16 code units
\* (one for each character of the model's texts)
substring0(s, end) ==
    SubSeq(s, 1, IF end < 0 THEN 0 ELSE IF end > Len(s) THEN Len(s) ELSE end)

TruncationNote == "> **Note**: Raw log truncated due to size.\n\n"

\* the code fence of the template, three backquotes; a TLA+ string cannot
\* hold a backquote and an apostrophe stands for it
Fence == "'''"

\* first line of AGENTFORCE_ANALYSIS_PROMPT, a constant text of 55 lines
AgentforceAnalysisPrompt == "You are an expert Salesforce log analyst.\n"

\* the template literal of the packet (the emoji of the prompt heading is
\* left out)
renderPacket(o, ts, isTruncated, rawLogContent, keyExtracts) ==
    "# Debugforce Analysis Packet\n\n## Header\n\n"
    \o "- **Org Alias**: "
    \o (IF o.userInfo.orgAlias = "" THEN "N/A" ELSE o.userInfo.orgAlias) \o "\n"
    \o "- **Username**: " \o o.userInfo.username \o "\n"
    \o "- **SFCLILoggedInUserId**: " \o o.userInfo.userId \o "\n"
    \o "- **Time Window Minutes**: " \o ToString(o.timeWindowMinutes) \o "\n"
    \o "- **Log Id**: " \o o.logId \o "\n"
    \o "- **Download Timestamp (UTC)**: " \o ts \o "\n"
    \o "- **Raw Log File**: .debugforce/logs/" \o o.logId \o ".log\n"
    \o "\n---\n\n## Cursor AI Prompt\n\n" \o AgentforceAnalysisPrompt
    \o "\n---\n\n## Key Extracts\n\n" \o Fence \o "\n"
    \o join(keyExtracts, "\n")
    \o "\n" \o Fence \o "\n\n---\n\n## Raw Log\n\n"
    \o (IF isTruncated THEN TruncationNote ELSE "") \o Fence \o "\n"
    \o rawLogContent \o "\n" \o Fence \o "\n"

\* generateAnalysisContent with a fault: the key lines are extracted from
\* the truncated raw log
generateAnalysisContentFromCut(o, ts) ==
    LET isTruncated == byteLength(o.logContent) > o.truncateRawLogBytes
        rawLogContent == IF isTruncated
                         THEN substring0(o.logContent, o.truncateRawLogBytes)
                         ELSE o.logContent
        keyExtracts == extractKeyLines(rawLogContent, PacketMaxLines)
    IN  [kind |-> "return",
         value |-> renderPacket(o, ts, isTruncated, rawLogContent, keyExtracts),
         isTruncated |-> isTruncated,
         rawLogContent |-> rawLogContent,
         keyExtracts |-> keyExtracts]

\* the outcome of generateAnalysisContent: value is the returned markdown,
\* the other fields are the locals it was rendered from
generateAnalysisContent(o, ts) ==
    LET isTruncated == byteLength(o.logContent) > o.truncateRawLogBytes
        rawLogContent == IF isTruncated
                         THEN substring0(o.logContent, o.truncateRawLogBytes)
                         ELSE o.logContent
        keyExtracts == extractKeyLines(o.logContent, PacketMaxLines)
    IN  [kind |-> "return",
         value |-> renderPacket(o, ts, isTruncated, rawLogContent, keyExtracts),
         isTruncated |-> isTruncated,
         rawLogContent |-> rawLogContent,
         keyExtracts |-> keyExtracts]

-----------------------------------------------------------------------------
(* Multi-Log Aggregator: analyzeLogsLocally.  The leading pictographs of   *)
(* the messages and headings are left out of the texts.                    *)

\* the characters of the model's file names, in code-unit order
CodeUnits == ".0123456789ABCDEFGHIJKLMNOPQRSTUVWXYZ_abcdefghijklmnopqrstuvwxyz"

charCode(c) == Least({i \in 1..Len(CodeUnits) : Char(CodeUnits, i) = c})

RECURSIVE lessThan(_, _)
\* the order Array.prototype.sort() gives strings: by code units
lessThan(a, b) ==
    IF b = "" THEN FALSE
    ELSE IF a = "" THEN TRUE
    ELSE IF Head(a) = Head(b) THEN lessThan(Tail(a), Tail(b))
    ELSE charCode(Head(a)) < charCode(Head(b))

\* String.prototype.endsWith
endsWith(s, suffix) ==
    /\ Len(s) >= Len(suffix)
    /\ SubSeq(s, Len(s) - Len(suffix) + 1, Len(s)) = suffix

RECURSIVE sort(_)
\* Array.prototype.sort() of distinct names, whatever order readdir gave
sort(names) ==
    IF names = {} THEN <<>>
    ELSE LET first == CHOOSE n \in names :
                          \A m \in names \ {n} : lessThan(n, m)
         IN  <<first>> \o sort(names \ {first})

\* Array.prototype.reverse()
reverse(a) == [i \in 1..Len(a) |-> a[Len(a) + 1 - i]]

\* number of lines a section shows of each bucket
ExceptionCap == 5
FatalErrorCap == 5
LimitIssueCap == 3
FlowErrorCap == 3
ValidationErrorCap == 5

\* categoryBlock with a fault: the whole bucket is listed
categoryBlockUncapped(heading, bucket, cap, noun) ==
    IF Len(bucket) > 0
    THEN "### " \o heading \o "\n\n" \o Fence \o "\n"
         \o join(bucket, "\n") \o "\n" \o Fence \o "\n\n"
    ELSE ""

\* one category of a section: heading, fence, the first cap lines, the
\* count of the lines left out
categoryBlock(heading, bucket, cap, noun) ==
    IF Len(bucket) > 0
    THEN "### " \o heading \o "\n\n" \o Fence \o "\n"
         \o join(slice0(bucket, cap), "\n")
         \o (IF Len(bucket) > cap
             THEN "\n... and " \o ToString(Len(bucket) - cap) \o " more "
                  \o noun \o "\n"
             ELSE "")
         \o "\n" \o Fence \o "\n\n"
    ELSE ""

\* the root cause suggestions of a section
rootCause(a) ==
    "### Root Cause Analysis\n\n"
    \o (IF Len(a.exceptions) > 0
        THEN "This log contains " \o ToString(Len(a.exceptions))
             \o " exception(s). "
             \o "Review the exception messages above to identify the root cause. Common causes include:\n"
             \o "- Null pointer exceptions (accessing null values)\n"
             \o "- Type conversion errors\n"
             \o "- Invalid data or failed validations\n"
             \o "- Permission issues\n\n"
        ELSE "")
    \o (IF Len(a.limitIssues) > 0
        THEN "Governor limits are being approached or exceeded. Consider optimizing:\n"
             \o "- Query efficiency (reduce SOQL queries in loops)\n"
             \o "- Bulk operations (process records in batches)\n"
             \o "- CPU time (optimize complex calculations)\n\n"
        ELSE "")
    \o (IF Len(a.flowErrors) > 0
        THEN "Flow execution errors detected. Check:\n"
             \o "- Flow element configurations\n"
             \o "- Variable assignments and null checks\n"
             \o "- Record lookups and data availability\n\n"
        ELSE "")
    \o (IF Len(a.validationErrors) > 0
        THEN "Validation rule(s) blocked the operation. Check:\n"
             \o "- The validation rule formula and error message\n"
             \o "- Required fields or conditions before the action\n"
             \o "- Case/Object Manager > Validation Rules in Setup\n\n"
        ELSE "")

recommendedActions(a) ==
    "### Recommended Actions\n\n"
    \o "1. Review the error details in the full log file: '.debugforce/logs/"
    \o a.filename \o "'\n"
    \o "2. Search Salesforce documentation and Stack Exchange for similar errors\n"
    \o "3. Add debug statements or adjust log levels if more context is needed\n"
    \o "4. Consider using breakpoints or checkpoints for deeper debugging\n\n"
    \o "---\n\n"

\* the section of analyses[i], numbered i
logSection(i, a) ==
    "## Log " \o ToString(i) \o ": " \o a.filename \o "\n\n"
    \o "**Summary**: " \o a.summary \o "\n\n"
    \o categoryBlock("Exceptions", a.exceptions, ExceptionCap, "exception(s)")
    \o categoryBlock("Fatal Errors", a.fatalErrors, FatalErrorCap, "error(s)")
    \o categoryBlock("Limit Warnings", a.limitIssues, LimitIssueCap,
                     "limit warning(s)")
    \o categoryBlock("Flow Errors", a.flowErrors, FlowErrorCap, "flow error(s)")
    \o categoryBlock("Validation Errors", a.validationErrors,
                     ValidationErrorCap, "validation error(s)")
    \o rootCause(a)
    \o recommendedActions(a)

RECURSIVE logSections(_, _)
\* for (let i = 0; i < analyses.length; i++), from section i on
logSections(analyses, i) ==
    IF i > Len(analyses) THEN ""
    ELSE logSection(i, analyses[i]) \o logSections(analyses, i + 1)

FolderNotFound == "Logs folder not found. Please fetch logs first."

NoLogFiles == "No log files found in .debugforce/logs folder."

noErrorsDetected(n) ==
    "**No errors detected in any of the " \o ToString(n)
    \o " analyzed log(s).**\n\nAll logs appear to be clean. Great job!"

\* reportHeader with a fault: every log is counted as clean
reportHeaderAllClean(total, withErrors) ==
    "# Agentforce Log Analysis Report\n\n"
    \o "**Total Logs Analyzed**: " \o ToString(total) \o "\n"
    \o "**Logs with Errors**: " \o ToString(withErrors) \o "\n"
    \o "**Clean Logs**: " \o ToString(total) \o "\n\n"
    \o "---\n\n"

reportHeader(total, withErrors) ==
    "# Agentforce Log Analysis Report\n\n"
    \o "**Total Logs Analyzed**: " \o ToString(total) \o "\n"
    \o "**Logs with Errors**: " \o ToString(withErrors) \o "\n"
    \o "**Clean Logs**: " \o ToString(total - withErrors) \o "\n\n"
    \o "---\n\n"

\* readAndAnalyze with a fault: a clean log is retained too
readAndAnalyzeAll(files, logFiles, i, analyses) ==
    LET file == files[logFiles[i]]
    IN  IF file.readable
        THEN Append(analyses, analyzeLogContent(logFiles[i], file.content))
        ELSE analyses

\* the body of the read loop for logFiles[i]: a failed read is logged and
\* the file skipped
readAndAnalyze(files, logFiles, i, analyses) ==
    LET file == files[logFiles[i]]
    IN  IF file.readable
        THEN LET a == analyzeLogContent(logFiles[i], file.content)
             IN  IF a.hasErrors THEN Append(analyses, a) ELSE analyses
        ELSE analyses

RECURSIVE readLoop(_, _, _, _)
\* for (const file of logFiles), from logFiles[i] on
readLoop(files, logFiles, i, analyses) ==
    IF i > Len(logFiles) THEN analyses
    ELSE readLoop(files, logFiles, i + 1,
                  readAndAnalyze(files, logFiles, i, analyses))

\* files.filter(f => f.endsWith('.log')).sort().reverse()
listLogFiles(files) ==
    reverse(sort({f \in DOMAIN files : endsWith(f, ".log")}))

\* chooseMessage with a fault: an empty folder is reported as clean
chooseMessageConflated(logFiles, analyses) ==
    IF Len(analyses) = 0
    THEN Return(noErrorsDetected(Len(logFiles)))
    ELSE Return(reportHeader(Len(logFiles), Len(analyses))
                \o logSections(analyses, 1))

\* what analyzeLogsLocally returns for the listed files and the retained
\* analyses
chooseMessage(logFiles, analyses) ==
    IF Len(logFiles) = 0
    THEN Return(NoLogFiles)
    ELSE IF Len(analyses) = 0
    THEN Return(noErrorsDetected(Len(logFiles)))
    ELSE Return(reportHeader(Len(logFiles), Len(analyses))
                \o logSections(analyses, 1))

analyzeLogsLocally(w) ==
    IF ~w.open
    THEN [kind |-> "throw", value |-> "No workspace folder open"]
    ELSE IF ~w.exists
    THEN Return(FolderNotFound)
    ELSE LET logFiles == listLogFiles(w.files)
         IN  chooseMessage(logFiles, readLoop(w.files, logFiles, 1, <<>>))

-----------------------------------------------------------------------------
(* Logs given to the analyzer.  A lexicon line carries its text, the text  *)
(* trimmed by hand and the buckets the line belongs to; limit-usage lines  *)
(* made from numbers carry the numbers.                                    *)

Line(text, trimmed, cats) ==
    [text |-> text, trimmed |-> trimmed, cats |-> cats,
     limit |-> <<>>, malformed |-> FALSE]

Malformed(text, trimmed) ==
    [text |-> text, trimmed |-> trimmed, cats |-> {},
     limit |-> <<>>, malformed |-> TRUE]

\* a limit-usage line reporting `used out of max`, max >= 1, in two layouts
LimitLine(layout, used, max) ==
    LET body == IF layout = 1
                THEN "09:00:00.1 (100)|LIMIT_USAGE|q|" \o ToString(used)
                         \o " out of " \o ToString(max)
                ELSE "MAXIMUM_LIMIT_USAGE|cpu: " \o ToString(used)
                         \o "out of" \o ToString(max) \o " ms"
    IN  [text |-> IF layout = 1 THEN body ELSE "  " \o body \o "\r",
         trimmed |-> body,
         cats |-> IF 5 * used > 4 * max THEN {"limitIssues"} ELSE {},
         limit |-> <<used, max>>, malformed |-> FALSE]

UsedValues == {0, 4, 5, 8, 9, 10, 79, 80, 81, 95, 100, 101}
MaxValues == {5, 10, 100}

LimitLines ==
    {LimitLine(t, u, m) : t \in {1, 2}, u \in UsedValues, m \in MaxValues}

\* lines of the multi-line logs
BaseLexicon ==
    { Line("", "", {}),
      Line("  USER_DEBUG|ok\r", "USER_DEBUG|ok", {}),
      Line("09:00|EXCEPTION_THROWN|e", "09:00|EXCEPTION_THROWN|e",
           {"exceptions"}),
      Line(" UNHANDLED_EXCEPTION|System.DmlException ",
           "UNHANDLED_EXCEPTION|System.DmlException",
           {"exceptions", "fatalErrors"}),
      Line("FATAL_ERROR|f", "FATAL_ERROR|f", {"fatalErrors"}),
      LimitLine(1, 95, 100),
      Malformed("LIMIT_USAGE|x out of y", "LIMIT_USAGE|x out of y"),
      Line("FLOW_ELEMENT_FAULT|x\r", "FLOW_ELEMENT_FAULT|x", {"flowErrors"}),
      Line("\tVALIDATION_FAIL|v", "VALIDATION_FAIL|v", {"validationErrors"}) }

\* lines of the one-line logs
SingleLexicon ==
    LimitLines \cup
    { Line("FLOW_ELEMENT_ERROR", "FLOW_ELEMENT_ERROR", {"flowErrors"}),
      Line("FLOW_CREATE_INTERVIEW_ERROR|i", "FLOW_CREATE_INTERVIEW_ERROR|i",
           {"flowErrors"}),
      Line("VALIDATION_ERROR|EXCEPTION_THROWN", "VALIDATION_ERROR|EXCEPTION_THROWN",
           {"validationErrors", "exceptions"}),
      Line("System.debug", "System.debug", {"fatalErrors"}),
      Line(" System.QueryException: q", "System.QueryException: q",
           {"fatalErrors"}),
      Line("SYSTEM_MODE_ENTER|false", "SYSTEM_MODE_ENTER|false", {}),
      Line("LIMIT_USAGE|5 out of 0", "LIMIT_USAGE|5 out of 0", {"limitIssues"}),
      Line("LIMIT_USAGE|0 out of 0", "LIMIT_USAGE|0 out of 0", {}),
      Malformed("LIMIT_USAGE", "LIMIT_USAGE"),
      Malformed("LIMIT_USAGE|", "LIMIT_USAGE|"),
      Malformed("LIMIT_USAGE|95 out of", "LIMIT_USAGE|95 out of"),
      Malformed("LIMIT_USAGE|out of 100", "LIMIT_USAGE|out of 100"),
      Malformed("LIMIT_USAGE|95 of 100 ", "LIMIT_USAGE|95 of 100"),
      Malformed("MAXIMUM_LIMIT_USAGE|95 out of\tmany", "MAXIMUM_LIMIT_USAGE|95 out of\tmany"),
      Malformed("95 out of 100|LIMIT_USAGE", "95 out of 100|LIMIT_USAGE"),
      Malformed("95 out of 100|LIMIT_USAGE|\r", "95 out of 100|LIMIT_USAGE|") }

Inputs ==
    UNION {[1..n -> BaseLexicon] : n \in 1..MaxLogLines}
        \cup {<<l>> : l \in SingleLexicon}

\* the text of a log made of the given lines
TextOf(ls) == join([i \in 1..Len(ls) |-> ls[i].text], "\n")

Filenames == {"a.log", "b.log"}

-----------------------------------------------------------------------------
(* Log Analyzer: one call per behaviour, on a log drawn by Init *)

ExtractorIdle ==
    /\ keyInput = <<>>
    /\ logContent = ""
    /\ maxLines = 0
    /\ keyLines = None

PacketIdle ==
    /\ options = None
    /\ now = ""
    /\ packet = None

AggregatorIdle ==
    /\ workspace = None
    /\ report = None

SessionIdle == calls = <<>>

FetchIdle ==
    /\ cliUser = ""
    /\ clock = 0
    /\ cachedUserInfo = None
    /\ cacheTimestamp = 0
    /\ fetch = None

UserCallsIdle == userCalls = <<>> /\ cacheHistory = None

TreeIdle == provider = "" /\ logs = <<>>

BackgroundIdle ==
    /\ backgroundInterval = 0
    /\ setupTimestamp = 0
    /\ traceDurationMinutes = 30
    /\ globalState = None
    /\ timers = {}
    /\ ticks = {}
    /\ started = <<>>

TraceIdle == traceFlags = {} /\ setup = None

ShellIdle == UserCallsIdle /\ TreeIdle /\ BackgroundIdle /\ TraceIdle

InitAnalyzer ==
    /\ input \in Inputs
    /\ filename \in Filenames
    /\ content = TextOf(input)
    /\ analysis = None
    /\ ExtractorIdle
    /\ PacketIdle
    /\ AggregatorIdle
    /\ SessionIdle
    /\ FetchIdle
    /\ ShellIdle

\* the call analyzeLogContent(filename, content)
Analyze ==
    /\ analysis = None
    /\ input # <<>>
    /\ analysis' = analyzeLogContent(filename, content)
    /\ UNCHANGED <<input, filename, content, extractorVars, packetVars,
                   aggregatorVars, sessionVars,
                   userVars, fetchVars, shellVars>>

NextAnalyzer == Analyze

SpecAnalyzer == InitAnalyzer /\ [][NextAnalyzer]_vars

-----------------------------------------------------------------------------
(* Key-Line Extractor: one call per behaviour, on a log and a maxLines     *)
(* drawn by Init.  A lexicon line carries its text, the text trimmed by    *)
(* hand and its tier.                                                      *)

\* longest log, in lines, given to extractKeyLines
MaxKeyLogLines == 3

\* largest maxLines given to extractKeyLines
MaxKeyLines == 3

KeyLine(text, trimmed, tier) == [text |-> text, trimmed |-> trimmed, tier |-> tier]

KeyLexicon ==
    { KeyLine("09:00|EXCEPTION_THROWN|e", "09:00|EXCEPTION_THROWN|e", "error"),
      KeyLine("  09:00|EXCEPTION_THROWN|e\r", "09:00|EXCEPTION_THROWN|e", "error"),
      KeyLine("FATAL_ERROR|LIMIT_USAGE", "FATAL_ERROR|LIMIT_USAGE", "error"),
      KeyLine("SOQL_EXECUTE_BEGIN|q", "SOQL_EXECUTE_BEGIN|q", "info"),
      KeyLine("\tDML_BEGIN|u ", "DML_BEGIN|u", "info"),
      KeyLine(" \r", "", "none"),
      KeyLine("USER_DEBUG|x", "USER_DEBUG|x", "none") }

KeyInputs == UNION {[1..n -> KeyLexicon] : n \in 1..MaxKeyLogLines}

MaxLinesArgs == (0 - 2)..MaxKeyLines

AnalyzerIdle ==
    /\ input = <<>>
    /\ filename = ""
    /\ content = ""
    /\ analysis = None

InitExtractor ==
    /\ keyInput \in KeyInputs
    /\ logContent = TextOf(keyInput)
    /\ maxLines \in MaxLinesArgs
    /\ keyLines = None
    /\ AnalyzerIdle
    /\ PacketIdle
    /\ AggregatorIdle
    /\ SessionIdle
    /\ FetchIdle
    /\ ShellIdle

\* the call extractKeyLines(logContent, maxLines)
ExtractKeyLines ==
    /\ keyLines = None
    /\ keyInput # <<>>
    /\ keyLines' = Return(extractKeyLines(logContent, maxLines))
    /\ UNCHANGED <<keyInput, logContent, maxLines, analyzerVars, packetVars,
                   aggregatorVars, sessionVars,
                   userVars, fetchVars, shellVars>>

NextExtractor == ExtractKeyLines

SpecExtractor == InitExtractor /\ [][NextExtractor]_vars

-----------------------------------------------------------------------------
(* Analysis-Packet Synthesizer: one call per behaviour, on options drawn   *)
(* by Init                                                                 *)

\* largest truncateRawLogBytes below the default
MaxTruncateBytes == 6

\* the default of the setting debugforce.truncateRawLogBytes
DefaultTruncateBytes == 1500000

PacketTexts ==
    {"", "a", "abcdef", "é", "aé\nb", "€uro", "FATAL_ERROR",
     "ab\nDML_BEGIN|u\n09:00|EXCEPTION_THROWN|e",
     "a\n FATAL_ERROR|x \nUSER_DEBUG|y"}

TruncateArgs == ((0 - 1)..MaxTruncateBytes) \cup {DefaultTruncateBytes}

UserInfos ==
    {[orgAlias |-> a, username |-> "dev@example.org", userId |-> "005A"] :
        a \in {"", "devhub"}}

PacketOptions ==
    {[userInfo |-> u, logId |-> "07L1", timeWindowMinutes |-> 30,
      logContent |-> c, outputFolder |-> ".debugforce/analysis",
      truncateRawLogBytes |-> t] :
        u \in UserInfos, c \in PacketTexts, t \in TruncateArgs}

Timestamps == {"2026-01-01T00:00:00.000Z", "2026-01-01T00:05:00.000Z"}

InitPacket ==
    /\ options \in PacketOptions
    /\ now \in Timestamps
    /\ packet = None
    /\ AnalyzerIdle
    /\ ExtractorIdle
    /\ AggregatorIdle
    /\ SessionIdle
    /\ FetchIdle
    /\ ShellIdle

\* the call generateAnalysisContent(options)
GenerateAnalysisContent ==
    /\ packet = None
    /\ options # None
    /\ packet' = generateAnalysisContent(options, now)
    /\ UNCHANGED <<options, now, analyzerVars, extractorVars, aggregatorVars, sessionVars,
                   userVars, fetchVars, shellVars>>

NextPacket == GenerateAnalysisContent

SpecPacket == InitPacket /\ [][NextPacket]_vars

\* the two entry points that take a size limit, each called once
InitCore == InitExtractor \/ InitPacket

NextCore == ExtractKeyLines \/ GenerateAnalysisContent

SpecCore == InitCore /\ [][NextCore]_vars

-----------------------------------------------------------------------------
(* Multi-Log Aggregator: one call per behaviour, on a workspace drawn by   *)
(* Init.  A log of the folder carries its text and, written by hand, the   *)
(* trimmed lines of each bucket.                                           *)

\* most files in the logs folder
MaxFolderFiles == 3

FolderLog(text, ex, fe, li, fl, ve) ==
    [text |-> text, exceptions |-> ex, fatalErrors |-> fe, limitIssues |-> li,
     flowErrors |-> fl, validationErrors |-> ve]

CleanLog ==
    FolderLog("09:00|USER_DEBUG|ok\n09:01|LIMIT_USAGE|5 out of 100",
              <<>>, <<>>, <<>>, <<>>, <<>>)

EmptyLog == FolderLog("", <<>>, <<>>, <<>>, <<>>, <<>>)

OneExceptionLog ==
    FolderLog("09:00|EXCEPTION_THROWN|e1\n09:01|USER_DEBUG|x",
              <<"09:00|EXCEPTION_THROWN|e1">>, <<>>, <<>>, <<>>, <<>>)

TwoBucketLog ==
    FolderLog("  09:00|EXCEPTION_THROWN|System.NullPointerException \r",
              <<"09:00|EXCEPTION_THROWN|System.NullPointerException">>,
              <<"09:00|EXCEPTION_THROWN|System.NullPointerException">>,
              <<>>, <<>>, <<>>)

ManyExceptionsLog ==
    FolderLog("EXCEPTION_THROWN|e1\nEXCEPTION_THROWN|e2\nLIMIT_USAGE|91 out of 100\n"
              \o "EXCEPTION_THROWN|e3\nLIMIT_USAGE|92 out of 100\nUSER_DEBUG|x\n"
              \o "EXCEPTION_THROWN|e4\nLIMIT_USAGE|93 out of 100\nEXCEPTION_THROWN|e5\n"
              \o "LIMIT_USAGE|94 out of 100\nEXCEPTION_THROWN|e6",
              <<"EXCEPTION_THROWN|e1", "EXCEPTION_THROWN|e2",
                "EXCEPTION_THROWN|e3", "EXCEPTION_THROWN|e4",
                "EXCEPTION_THROWN|e5", "EXCEPTION_THROWN|e6">>,
              <<>>,
              <<"LIMIT_USAGE|91 out of 100", "LIMIT_USAGE|92 out of 100",
                "LIMIT_USAGE|93 out of 100", "LIMIT_USAGE|94 out of 100">>,
              <<>>, <<>>)

ManyOthersLog ==
    FolderLog("FATAL_ERROR|f1\nFLOW_ELEMENT_ERROR|w1\nVALIDATION_FAIL|v1\n"
              \o "FATAL_ERROR|f2\nFLOW_ELEMENT_FAULT|w2\nVALIDATION_ERROR|v2\n"
              \o "FATAL_ERROR|f3\nFLOW_ELEMENT_ERROR|w3\nVALIDATION_FAIL|v3\n"
              \o "FATAL_ERROR|f4\nFLOW_ELEMENT_ERROR|w4\nVALIDATION_FAIL|v4\n"
              \o "FATAL_ERROR|f5\nVALIDATION_FAIL|v5\n"
              \o "FATAL_ERROR|f6\nVALIDATION_FAIL|v6",
              <<>>,
              <<"FATAL_ERROR|f1", "FATAL_ERROR|f2", "FATAL_ERROR|f3",
                "FATAL_ERROR|f4", "FATAL_ERROR|f5", "FATAL_ERROR|f6">>,
              <<>>,
              <<"FLOW_ELEMENT_ERROR|w1", "FLOW_ELEMENT_FAULT|w2",
                "FLOW_ELEMENT_ERROR|w3", "FLOW_ELEMENT_ERROR|w4">>,
              <<"VALIDATION_FAIL|v1", "VALIDATION_ERROR|v2",
                "VALIDATION_FAIL|v3", "VALIDATION_FAIL|v4",
                "VALIDATION_FAIL|v5", "VALIDATION_FAIL|v6">>)

FolderLogs ==
    {CleanLog, EmptyLog, OneExceptionLog, TwoBucketLog, ManyExceptionsLog,
     ManyOthersLog}

\* a file of the folder: readFile gives its content or fails
FileEntries ==
    {[readable |-> TRUE, content |-> l.text] : l \in FolderLogs}
        \cup {[readable |-> FALSE, content |-> ""]}

\* a file of the folder that is not a log
NotesFile == [readable |-> TRUE, content |-> "EXCEPTION_THROWN in my notes"]

\* the names a folder may hold: logs and other files; and by hand, the
\* logs newest (greatest name) first
LogNames == {"a.log", "b.log", "B.log"}

OtherNames == {"a.txt"}

NewestFirst == <<"b.log", "a.log", "B.log">>

Folders ==
    UNION {{f \in [S -> FileEntries \cup {NotesFile}] :
               \A n \in S : f[n] = NotesFile <=> n \in OtherNames} :
              S \in {T \in SUBSET (LogNames \cup OtherNames) :
                        Cardinality(T) <= MaxFolderFiles}}

Workspaces ==
    {[open |-> FALSE, exists |-> FALSE, files |-> <<>>],
     [open |-> TRUE, exists |-> FALSE, files |-> <<>>]}
        \cup {[open |-> TRUE, exists |-> TRUE, files |-> f] : f \in Folders}

InitAggregator ==
    /\ workspace \in Workspaces
    /\ report = None
    /\ AnalyzerIdle
    /\ ExtractorIdle
    /\ PacketIdle
    /\ SessionIdle
    /\ FetchIdle
    /\ ShellIdle

\* the call analyzeLogsLocally('.debugforce/logs')
AnalyzeLogsLocally ==
    /\ report = None
    /\ workspace # None
    /\ report' = analyzeLogsLocally(workspace)
    /\ UNCHANGED <<workspace, analyzerVars, extractorVars, packetVars,
                   sessionVars, userVars, fetchVars, shellVars>>

NextAggregator == AnalyzeLogsLocally

SpecAggregator == InitAggregator /\ [][NextAggregator]_vars

-----------------------------------------------------------------------------
(* Properties of the Log Analyzer *)

Buckets ==
    <<"exceptions", "fatalErrors", "limitIssues", "flowErrors", "validationErrors">>

Returned == analysis # None

NonEmptyBuckets == {i \in 1..Len(Buckets) : analysis[Buckets[i]] # <<>>}

CleanInput == \A i \in 1..Len(input) : input[i].cats = {}

\* C1: the returned LogAnalysis has hasErrors = TRUE exactly when one of the
\* five buckets is non-empty, and a log without a matching line (the empty
\* log included) gives hasErrors = FALSE with five empty buckets.
C1_HasErrorsIffBucket ==
    Returned =>
        /\ analysis.hasErrors <=> NonEmptyBuckets # {}
        /\ CleanInput => ~analysis.hasErrors /\ NonEmptyBuckets = {}

\* a log whose only finding is a validation error has been analysed
C1_Witness ==
    /\ Returned
    /\ analysis.hasErrors
    /\ NonEmptyBuckets = {5}

RECURSIVE ExpectedBucket(_, _)
\* the trimmed lines of ls that belong to bucket b, in order, repeats kept
ExpectedBucket(ls, b) ==
    IF ls = <<>> THEN <<>>
    ELSE (IF b \in Head(ls).cats THEN <<Head(ls).trimmed>> ELSE <<>>)
             \o ExpectedBucket(Tail(ls), b)

\* C2: every bucket is the sequence of the trimmed lines of the log that
\* match the bucket's triggers, in order of appearance with repeated lines
\* kept; a line matching several trigger sets is in each of those buckets.
C2_BucketsAreMatchingLines ==
    Returned =>
        \A i \in 1..Len(Buckets) :
            analysis[Buckets[i]] = ExpectedBucket(input, Buckets[i])

\* a line matching two trigger sets, repeated, then a line matching one
C2_Witness ==
    /\ Returned
    /\ Len(input) = 3
    /\ input[1] = input[2]
    /\ input[1].cats = {"exceptions", "fatalErrors"}
    /\ input[3].cats = {"fatalErrors"}
    /\ Len(analysis.exceptions) = 2
    /\ Len(analysis.fatalErrors) = 3

Labels ==
    <<" exception(s)", " fatal error(s)", " limit warning(s)", " flow error(s)",
      " validation error(s)">>

RECURSIVE ExpectedSummary(_, _, _)
\* the fragments of buckets i..5 of a, each non-empty bucket preceded by
\* ", " unless it is the first one written
ExpectedSummary(a, i, first) ==
    IF i > Len(Buckets) THEN ""
    ELSE IF a[Buckets[i]] = <<>> THEN ExpectedSummary(a, i + 1, first)
    ELSE (IF first THEN "" ELSE ", ") \o ToString(Len(a[Buckets[i]]))
             \o Labels[i] \o ExpectedSummary(a, i + 1, FALSE)

\* C3: the summary lists "<n> <label>" for exactly the non-empty buckets, in
\* the fixed bucket order, joined by ", ", n being the bucket's length; it is
\* empty exactly when hasErrors is FALSE, and a log whose only matching line
\* is one EXCEPTION_THROWN line has the summary "1 exception(s)".
C3_Summary ==
    Returned =>
        /\ analysis.summary = ExpectedSummary(analysis, 1, TRUE)
        /\ analysis.summary = "" <=> ~analysis.hasErrors
        /\ (\E i \in 1..Len(input) :
               /\ input[i].text = "09:00|EXCEPTION_THROWN|e"
               /\ \A j \in 1..Len(input) : j # i => input[j].cats = {})
           => analysis.summary = "1 exception(s)"

\* a summary with three fragments, one of them counting two lines
C3_Witness ==
    /\ Returned
    /\ analysis.summary = "2 exception(s), 2 fatal error(s), 1 flow error(s)"

\* the limit-usage lines of the log that carry their numbers
LimitRows == {i \in 1..Len(input) : input[i].limit # <<>>}

\* C4: a LIMIT_USAGE (or MAXIMUM_LIMIT_USAGE) line reporting
\* "<used> out of <max>" after the pipe is a limit issue exactly when
\* used / max > 0.8: "95 out of 100" is, "10 out of 100" and "80 out of 100"
\* are not.
C4_LimitThreshold ==
    Returned =>
        /\ \A i \in LimitRows :
              (\E k \in 1..Len(analysis.limitIssues) :
                    analysis.limitIssues[k] = input[i].trimmed)
                 <=> 5 * input[i].limit[1] > 4 * input[i].limit[2]
        /\ content = "09:00:00.1 (100)|LIMIT_USAGE|q|95 out of 100"
              => analysis.limitIssues = <<content>>
        /\ content = "09:00:00.1 (100)|LIMIT_USAGE|q|10 out of 100"
              => analysis.limitIssues = <<>>
        /\ content = "09:00:00.1 (100)|LIMIT_USAGE|q|80 out of 100"
              => analysis.limitIssues = <<>>

\* the log "...|80 out of 100" was analysed and is clean
C4_Witness ==
    /\ Returned
    /\ content = "09:00:00.1 (100)|LIMIT_USAGE|q|80 out of 100"
    /\ ~analysis.hasErrors

MalformedRows == {i \in 1..Len(input) : input[i].malformed}

\* C5: a limit-usage line whose "X out of Y" part is missing or is not
\* made of numbers is never put in limitIssues of the returned analysis, and
\* such a line alone (or among clean lines) leaves hasErrors = FALSE.
C5_MalformedLimitLine ==
    Returned =>
        /\ \A i \in MalformedRows :
              \A k \in 1..Len(analysis.limitIssues) :
                  analysis.limitIssues[k] # input[i].trimmed
        /\ (\A i \in 1..Len(input) : input[i].malformed \/ input[i].cats = {})
              => ~analysis.hasErrors

\* a malformed limit-usage line was analysed next to a real limit issue
C5_Witness ==
    /\ Returned
    /\ MalformedRows # {}
    /\ analysis.limitIssues # <<>>

\* C28: whenever hasErrors(content) of the key-line module is true, the
\* analysis of the same content has hasErrors = true.
C28_FastPredicateIsNarrower ==
    Returned => (hasErrors(content) => analysis.hasErrors)

\* a log whose only line names System.QueryException: the fast predicate
\* finds the indicator, the analyzer puts the line among the fatal errors
C28_Witness ==
    /\ Returned
    /\ Len(input) = 1
    /\ input[1].trimmed = "System.QueryException: q"
    /\ hasErrors(content)
    /\ analysis.hasErrors
    /\ analysis.fatalErrors = <<"System.QueryException: q">>

-----------------------------------------------------------------------------
(* Properties of the Key-Line Extractor *)

Extracted == keyLines # None /\ keyLines.kind = "return"

RECURSIVE DistinctOfTier(_, _, _)
\* the trimmed lines of tier t in ls, in order, each text once
DistinctOfTier(ls, t, seen) ==
    IF ls = <<>> THEN <<>>
    ELSE IF Head(ls).tier = t /\ Head(ls).trimmed \notin seen
    THEN <<Head(ls).trimmed>>
             \o DistinctOfTier(Tail(ls), t, seen \cup {Head(ls).trimmed})
    ELSE DistinctOfTier(Tail(ls), t, seen)

DistinctErrors == DistinctOfTier(keyInput, "error", {})

Min(a, b) == IF a < b THEN a ELSE b

\* the tier of an output entry and the line of the log it first comes from
TierOf(x) == (CHOOSE l \in KeyLexicon : l.trimmed = x).tier
FirstRow(x) == Least({i \in 1..Len(keyInput) : keyInput[i].trimmed = x})

\* the informational lines standing before the first error line of the log
InfoBeforeError ==
    {i \in 1..Len(keyInput) :
        /\ keyInput[i].tier = "info"
        /\ \A j \in 1..i : keyInput[j].tier # "error"}

\* C6: for a positive maxLines the output holds the first min(maxLines, E)
\* distinct error-tier lines of the log, E being their number, however many
\* informational lines stand before them.
C6_ErrorsNeverDisplaced ==
    Extracted /\ maxLines > 0 =>
        LET k == Min(maxLines, Len(DistinctErrors))
        IN  /\ Len(keyLines.value) >= k
            /\ SubSeq(keyLines.value, 1, k) = SubSeq(DistinctErrors, 1, k)

\* maxLines informational lines stand before the only error line, which
\* is returned
C6_Witness ==
    /\ Extracted
    /\ maxLines = 2
    /\ Cardinality(InfoBeforeError) = 2
    /\ Len(DistinctErrors) = 1
    /\ keyLines.value[1] = DistinctErrors[1]

\* C7: for a positive maxLines the output has at most maxLines entries.
C7_AtMostMaxLines ==
    Extracted /\ maxLines > 0 => Len(keyLines.value) <= maxLines

\* three distinct key lines were found and maxLines = 2 of them returned
C7_Witness ==
    /\ Extracted
    /\ maxLines = 2
    /\ Len(DistinctErrors) + Len(DistinctOfTier(keyInput, "info", {})) = 3
    /\ Len(keyLines.value) = 2

\* C8: in the output every error-tier line stands before every
\* informational line, and the lines of one tier keep the order in which
\* they first appear in the log.
C8_ErrorsFirstInSourceOrder ==
    Extracted =>
        LET out == keyLines.value
        IN  /\ \A i \in 1..Len(out) :
                  \E r \in 1..Len(keyInput) : keyInput[r].trimmed = out[i]
            /\ \A i, j \in 1..Len(out) :
                  i < j =>
                      /\ ~(TierOf(out[i]) = "info" /\ TierOf(out[j]) = "error")
                      /\ TierOf(out[i]) = TierOf(out[j])
                            => FirstRow(out[i]) < FirstRow(out[j])

\* an informational line precedes an error line in the log and follows it
\* in the output
C8_Witness ==
    /\ Extracted
    /\ Len(keyLines.value) = 3
    /\ keyInput[1].tier = "info"
    /\ TierOf(keyLines.value[1]) = "error"
    /\ TierOf(keyLines.value[2]) = "info"
    /\ TierOf(keyLines.value[3]) = "info"

\* C9: the output holds no string twice: lines equal after trimming give at
\* most one entry, in either tier.
C9_NoDuplicates ==
    Extracted =>
        \A i, j \in 1..Len(keyLines.value) :
            i # j => keyLines.value[i] # keyLines.value[j]

\* three lines equal after trimming, two of them differing in white space,
\* gave one entry
C9_Witness ==
    /\ Extracted
    /\ maxLines = 3
    /\ Len(keyInput) = 3
    /\ \A i \in 1..3 : keyInput[i].trimmed = keyInput[1].trimmed
    /\ keyInput[1].text # keyInput[2].text
    /\ Len(keyLines.value) = 1

DistinctInfos == DistinctOfTier(keyInput, "info", {})

\* C22: every entry of the output is the trimmed form of a non-blank line of
\* the log that holds an error-tier or informational-tier token, and when
\* the number E of distinct error-tier lines is below maxLines the output
\* after its E error lines is the first min(maxLines - E, I) distinct
\* informational lines in source order, I being their number.
C22_InformationalPart ==
    Extracted =>
        LET out == keyLines.value
            E == Len(DistinctErrors)
            k == Min(maxLines - E, Len(DistinctInfos))
        IN  /\ \A i \in 1..Len(out) :
                  \E r \in 1..Len(keyInput) :
                      /\ out[i] = keyInput[r].trimmed
                      /\ keyInput[r].trimmed # ""
                      /\ keyInput[r].tier \in {"error", "info"}
            /\ E < maxLines =>
                  /\ Len(out) = E + k
                  /\ SubSeq(out, E + 1, E + k) = SubSeq(DistinctInfos, 1, k)

\* two informational lines stand before the only error line and maxLines
\* is 2: the error line and the first informational line are returned
C22_Witness ==
    /\ Extracted
    /\ maxLines = 2
    /\ Len(keyInput) = 3
    /\ keyInput[1].tier = "info"
    /\ keyInput[2].tier = "info"
    /\ keyInput[1].trimmed # keyInput[2].trimmed
    /\ keyInput[3].tier = "error"
    /\ keyLines.value = <<keyInput[3].trimmed, keyInput[1].trimmed>>

-----------------------------------------------------------------------------
(* Contract violations at the boundary *)

\* C10: a call of extractKeyLines with maxLines <= 0, and a packet built
\* with truncateBytes <= 0, is rejected with a failure instead of
\* returning a result.
C10_RejectedAtBoundary ==
    /\ keyLines # None /\ maxLines <= 0 => keyLines.kind = "throw"
    /\ packet # None /\ options.truncateRawLogBytes <= 0
          => packet.kind = "throw"

-----------------------------------------------------------------------------
(* Properties of the Multi-Log Aggregator, stated on the returned text     *)
(* and the hand-written tags of the folder's logs                          *)

Reported == report # None /\ report.kind = "return"

FolderListed == workspace # None /\ workspace.open /\ workspace.exists

\* the logs of the folder, by their names
LogsOfFolder == DOMAIN workspace.files \cap LogNames

TagOf(n) == CHOOSE l \in FolderLogs : l.text = workspace.files[n].content

HasFindings(l) ==
    \E b \in {"exceptions", "fatalErrors", "limitIssues", "flowErrors",
              "validationErrors"} : l[b] # <<>>

\* the logs that were read and have a line in some bucket
LogsWithErrors ==
    {n \in LogsOfFolder : workspace.files[n].readable /\ HasFindings(TagOf(n))}

startsWith(s, prefix) ==
    Len(s) >= Len(prefix) /\ SubSeq(s, 1, Len(prefix)) = prefix

IsFullReport(text) == startsWith(text, "# Agentforce Log Analysis Report\n")

\* C11: a folder without logs gives the 'no log files found' message; a
\* folder of N >= 1 logs none of which has findings gives the 'no errors
\* detected' message citing N; the full report is given exactly when some
\* log has findings; and the first two messages are different texts
C11_ThreeOutcomes ==
    Reported /\ FolderListed =>
        LET N == Cardinality(LogsOfFolder)
            M == Cardinality(LogsWithErrors)
        IN  /\ N = 0 =>
                  /\ report.value = "No log files found in .debugforce/logs folder."
                  /\ ~includes(report.value, "No errors detected")
            /\ N >= 1 /\ M = 0 =>
                  /\ report.value =
                         "**No errors detected in any of the " \o ToString(N)
                         \o " analyzed log(s).**\n\n"
                         \o "All logs appear to be clean. Great job!"
                  /\ ~includes(report.value, "No log files found")
            /\ IsFullReport(report.value) <=> M >= 1

\* two clean logs and another file: the message cites 2
C11_Witness ==
    /\ Reported /\ FolderListed
    /\ Cardinality(LogsOfFolder) = 2
    /\ Cardinality(DOMAIN workspace.files) = 3
    /\ LogsWithErrors = {}
    /\ \A n \in LogsOfFolder : workspace.files[n].readable
    /\ includes(report.value, "any of the 2 analyzed")

\* where the sections of the returned text start: a line "## Log ..."
SectionStarts ==
    {i \in 2..(Len(report.value) - 6) :
        SubSeq(report.value, i - 1, i + 6) = "\n## Log "}

\* the text from position i up to the end of its line
lineAt(text, i) ==
    SubSeq(text, i, Least({j \in i..(Len(text) + 1) :
                              j > Len(text) \/ Char(text, j) = "\n"}) - 1)

RECURSIVE ascending(_)
\* the members of a set of numbers, least first
ascending(S) ==
    IF S = {} THEN <<>>
    ELSE <<Least(S)>> \o ascending(S \ {Least(S)})

\* the section headings of the returned text, in the order of the text
SectionTitles ==
    LET starts == ascending(SectionStarts)
    IN  [k \in 1..Len(starts) |-> lineAt(report.value, starts[k])]

\* C12: for a folder of N logs of which M >= 1 have findings, the header of
\* the report shows Total Logs Analyzed N, Logs with Errors M and Clean
\* Logs N - M, and the body has exactly M sections
C12_HeaderCounts ==
    Reported /\ FolderListed /\ LogsWithErrors # {} =>
        LET N == Cardinality(LogsOfFolder)
            M == Cardinality(LogsWithErrors)
        IN  /\ startsWith(report.value,
                   "# Agentforce Log Analysis Report\n\n"
                   \o "**Total Logs Analyzed**: " \o ToString(N) \o "\n"
                   \o "**Logs with Errors**: " \o ToString(M) \o "\n"
                   \o "**Clean Logs**: " \o ToString(N - M) \o "\n\n---\n\n")
            /\ Len(SectionTitles) = M

\* two logs, the newer with one exception and the older clean: 2, 1, 1 and
\* one section
C12_Witness ==
    /\ Reported /\ FolderListed
    /\ LogsOfFolder = {"a.log", "b.log"}
    /\ workspace.files["b.log"].content = OneExceptionLog.text
    /\ workspace.files["a.log"].content = CleanLog.text
    /\ workspace.files["a.log"].readable /\ workspace.files["b.log"].readable
    /\ includes(report.value, "**Total Logs Analyzed**: 2\n")
    /\ includes(report.value, "**Logs with Errors**: 1\n")
    /\ includes(report.value, "**Clean Logs**: 1\n")
    /\ SectionTitles = <<"## Log 1: b.log">>

\* the logs with findings, newest first
ErrorLogsNewestFirst == SelectSeq(NewestFirst, LAMBDA n : n \in LogsWithErrors)

\* C13: the sections of the report are those of the logs that were read
\* and have findings, a clean log has none, they stand in the order of the
\* listing (newest first) and are numbered 1..M
C13_SectionsAreErrorLogsInOrder ==
    Reported /\ FolderListed /\ IsFullReport(report.value) =>
        SectionTitles =
            [k \in 1..Len(ErrorLogsNewestFirst) |->
                "## Log " \o ToString(k) \o ": " \o ErrorLogsNewestFirst[k]]

\* three logs, the middle one clean: two sections, numbered 1 and 2
C13_Witness ==
    /\ Reported /\ FolderListed
    /\ LogsOfFolder = LogNames
    /\ LogsWithErrors = {"b.log", "B.log"}
    /\ workspace.files["a.log"].readable
    /\ SectionTitles = <<"## Log 1: b.log", "## Log 2: B.log">>

\* the text of section k of the report
SectionText(k) ==
    LET starts == ascending(SectionStarts)
    IN  SubSeq(report.value, starts[k],
               IF k < Len(starts) THEN starts[k + 1] - 1 ELSE Len(report.value))

\* the categories of a section: heading, bucket and, by hand, the cap
Categories ==
    <<[heading |-> "Exceptions", bucket |-> "exceptions", cap |-> 5],
      [heading |-> "Fatal Errors", bucket |-> "fatalErrors", cap |-> 5],
      [heading |-> "Limit Warnings", bucket |-> "limitIssues", cap |-> 3],
      [heading |-> "Flow Errors", bucket |-> "flowErrors", cap |-> 3],
      [heading |-> "Validation Errors", bucket |-> "validationErrors",
       cap |-> 5]>>

\* where the fenced block of a heading starts in a section, if it has one
BlockStarts(section, heading) ==
    LET opening == "### " \o heading \o "\n\n" \o Fence \o "\n"
    IN  {i + Len(opening) : i \in
            {j \in 1..(Len(section) - Len(opening) + 1) :
                SubSeq(section, j, j + Len(opening) - 1) = opening}}

\* the lines listed in the fenced block that starts at position from: up
\* to the closing fence, the note on the lines left out and the empty line
\* after it not counted
ListedLines(section, from) ==
    LET closing == "\n" \o Fence \o "\n"
        to == Least({j \in from..(Len(section) - Len(closing) + 1) :
                        SubSeq(section, j, j + Len(closing) - 1) = closing})
    IN  SelectSeq(split(SubSeq(section, from, to - 1)),
                  LAMBDA l : l # "" /\ ~startsWith(l, "... and "))

\* C14: a section lists at most 5 exception, 5 fatal-error, 3 limit-warning,
\* 3 flow-error and 5 validation-error lines, they are the first lines of
\* the bucket in order of appearance, and a category has a block exactly
\* when its bucket is not empty
C14_SectionCaps ==
    Reported /\ FolderListed /\ IsFullReport(report.value) =>
        \A k \in 1..Len(ErrorLogsNewestFirst) :
            \A c \in 1..Len(Categories) :
                LET section == SectionText(k)
                    bucket == TagOf(ErrorLogsNewestFirst[k])[Categories[c].bucket]
                    blocks == BlockStarts(section, Categories[c].heading)
                IN  /\ blocks # {} <=> bucket # <<>>
                    /\ Cardinality(blocks) <= 1
                    /\ \A from \in blocks :
                           LET listed == ListedLines(section, from)
                           IN  /\ Len(listed) <= Categories[c].cap
                               /\ listed = SubSeq(bucket, 1, Len(listed))
                               /\ Len(listed) = Min(Len(bucket), Categories[c].cap)

\* a log of six exceptions and four limit warnings: five and three listed
C14_Witness ==
    /\ Reported /\ FolderListed
    /\ LogsOfFolder = {"a.log"}
    /\ workspace.files["a.log"].content = ManyExceptionsLog.text
    /\ workspace.files["a.log"].readable
    /\ LET section == SectionText(1)
       IN  /\ \E from \in BlockStarts(section, "Exceptions") :
                  Len(ListedLines(section, from)) = 5
           /\ \E from \in BlockStarts(section, "Limit Warnings") :
                  Len(ListedLines(section, from)) = 3
           /\ BlockStarts(section, "Flow Errors") = {}
           /\ includes(section, "... and 1 more exception(s)")

\* the logs that were read and analysed and have no findings
CleanLogsRead ==
    {n \in LogsOfFolder : workspace.files[n].readable /\ ~HasFindings(TagOf(n))}

\* C30: the number shown under Clean Logs, and the N of the 'no errors
\* detected in any of the N analyzed log(s)' message, count logs that were
\* read and analysed with no findings: a log whose read fails is counted
\* neither as clean nor as analysed.
C30_CleanLogsWereRead ==
    Reported /\ FolderListed =>
        LET K == Cardinality(CleanLogsRead)
        IN  /\ IsFullReport(report.value) =>
                  includes(report.value, "\n**Clean Logs**: " \o ToString(K) \o "\n")
            /\ startsWith(report.value, "**No errors detected") =>
                  startsWith(report.value,
                      "**No errors detected in any of the " \o ToString(K)
                      \o " analyzed log(s).**")

-----------------------------------------------------------------------------
(* Properties of the Analysis-Packet Synthesizer, stated on the returned   *)
(* markdown                                                                *)

Rendered == packet # None /\ packet.kind = "return"

\* where the text t occurs in s
occurrences(s, t) ==
    {i \in 1..(Len(s) - Len(t) + 1) : SubSeq(s, i, i + Len(t) - 1) = t}

\* what follows the heading of the raw-log section
AfterRawLogHeading ==
    LET heading == "\n## Raw Log\n\n"
        at == Least(occurrences(packet.value, heading))
    IN  SubSeq(packet.value, at + Len(heading), Len(packet.value))

NoticeShown == startsWith(AfterRawLogHeading, "> **Note**: Raw log truncated")

\* the raw-log section: the text between the fences that follow the heading
\* and the notice
RawLogSection ==
    LET opening == Fence \o "\n"
        closing == "\n" \o Fence \o "\n"
        body == AfterRawLogHeading
        from == Least(occurrences(body, opening)) + Len(opening)
    IN  SubSeq(body, from, Len(body) - Len(closing))

IsPrefix(p, s) == Len(p) <= Len(s) /\ SubSeq(s, 1, Len(p)) = p

\* C15: when the content is longer than truncateRawLogBytes in UTF-8 bytes,
\* the raw-log section is a prefix of the content of at most
\* truncateRawLogBytes bytes
C15_RawLogWithinBudget ==
    /\ Rendered
    /\ options.truncateRawLogBytes > 0
    /\ byteLength(options.logContent) > options.truncateRawLogBytes
    => /\ IsPrefix(RawLogSection, options.logContent)
       /\ byteLength(RawLogSection) <= options.truncateRawLogBytes

\* C16: the notice is shown exactly when the raw-log section is a proper
\* prefix of the content, and exactly when the content is longer than
\* truncateRawLogBytes in UTF-8 bytes; otherwise the section is the content
C16_NoticeIffCut ==
    Rendered /\ options.truncateRawLogBytes > 0 =>
        LET cut == /\ IsPrefix(RawLogSection, options.logContent)
                   /\ RawLogSection # options.logContent
            over == byteLength(options.logContent) > options.truncateRawLogBytes
        IN  /\ NoticeShown <=> cut
            /\ cut <=> over
            /\ ~over => RawLogSection = options.logContent /\ ~NoticeShown

\* C17: for a content of exactly truncateRawLogBytes + 1 bytes the notice
\* is shown and the raw-log section is truncateRawLogBytes bytes long
C17_OneByteOver ==
    /\ Rendered
    /\ options.truncateRawLogBytes > 0
    /\ byteLength(options.logContent) = options.truncateRawLogBytes + 1
    => /\ NoticeShown
       /\ byteLength(RawLogSection) = options.truncateRawLogBytes


\* the Key Extracts block: the text between the fences that follow the
\* heading
KeyExtractsBlock ==
    LET opening == "\n## Key Extracts\n\n" \o Fence \o "\n"
        closing == "\n" \o Fence \o "\n\n---\n\n## Raw Log\n\n"
        from == Least(occurrences(packet.value, opening)) + Len(opening)
        to == Least({i \in occurrences(packet.value, closing) : i >= from - 1})
    IN  SubSeq(packet.value, from, to - 1)

\* the error-tier lines of the model's texts, trimmed, written by hand
ErrorLinesOf(text) ==
    CASE text = "FATAL_ERROR" -> {"FATAL_ERROR"}
      [] text = "ab\nDML_BEGIN|u\n09:00|EXCEPTION_THROWN|e"
            -> {"09:00|EXCEPTION_THROWN|e"}
      [] text = "a\n FATAL_ERROR|x \nUSER_DEBUG|y" -> {"FATAL_ERROR|x"}
      [] OTHER -> {}

\* x is one of the lines of the block
IsLineOf(x, block) ==
    \E i \in occurrences(block, x) :
        /\ i = 1 \/ Char(block, i - 1) = "\n"
        /\ i + Len(x) - 1 = Len(block) \/ Char(block, i + Len(x)) = "\n"

\* C27: every error-tier line of the full content stands in the Key
\* Extracts block of the packet, also when it lies after the point at which
\* the raw log is cut.
C27_KeyLinesFromFullContent ==
    Rendered =>
        \A x \in ErrorLinesOf(options.logContent) : IsLineOf(x, KeyExtractsBlock)

\* the raw log is cut before its error line, which the raw-log section
\* does not hold and the Key Extracts block does
C27_Witness ==
    /\ Rendered
    /\ options.truncateRawLogBytes = 6
    /\ packet.isTruncated
    /\ \E x \in ErrorLinesOf(options.logContent) :
          /\ ~includes(RawLogSection, x)
          /\ IsLineOf(x, KeyExtractsBlock)

-----------------------------------------------------------------------------
(* A session of the analyzer and the extractor: calls on several logs, in  *)
(* any order, one after the other as the single thread runs them.  Neither *)
(* module has a variable outside its functions; calls keeps the history.   *)

\* most calls of a session
MaxSessionCalls == 3

SessionLine(text, trimmed, cats, tier) ==
    [text |-> text, trimmed |-> trimmed, cats |-> cats, tier |-> tier]

ExceptionLine ==
    SessionLine("09:00|EXCEPTION_THROWN|e", "09:00|EXCEPTION_THROWN|e",
                {"exceptions"}, "error")

ExceptionLinePadded ==
    SessionLine("  09:00|EXCEPTION_THROWN|e\r", "09:00|EXCEPTION_THROWN|e",
                {"exceptions"}, "error")

QueryLine ==
    SessionLine("SOQL_EXECUTE_BEGIN|q", "SOQL_EXECUTE_BEGIN|q", {}, "info")

ValidationLine ==
    SessionLine("VALIDATION_FAIL|v", "VALIDATION_FAIL|v",
                {"validationErrors"}, "none")

\* the logs of a session: the first two share their lines once trimmed
SessionLogs ==
    {<<ExceptionLine, QueryLine>>,
     <<QueryLine, ExceptionLinePadded, ValidationLine, ExceptionLine>>,
     <<QueryLine>>}

SessionMaxLines == {1, 3}

\* analyzeCall with a fault: the buckets of the previous analysis are kept
analyzeCallAccumulating(history, f, c) ==
    LET earlier == {i \in 1..Len(history) : history[i].op = "analyze"}
        start == IF earlier = {} THEN EmptyAnalysis(f)
                 ELSE [history[CHOOSE i \in earlier :
                                   \A j \in earlier : j <= i].result
                       EXCEPT !.filename = f]
        a == scanLines(start, split(c))
    IN  [a EXCEPT !.summary = summaryOf(a)]

\* analyzeLogContent(f, c) called after the calls of history: the analysis
\* object is built anew and nothing of an earlier call is read
analyzeCall(history, f, c) == analyzeLogContent(f, c)

\* extractCall with a fault: the set seen outlives the call
extractCallSharedSeen(history, c, max) ==
    LET earlier == {i \in 1..Len(history) : history[i].op = "extract"}
        seen == UNION {{history[i].result[k] : k \in 1..Len(history[i].result)} :
                          i \in earlier}
    IN  combine(keyLineLoop([NoKeyLines EXCEPT !.seen = seen], split(c), max),
                max)

\* extractKeyLines(c, max) called after the calls of history: errorLines,
\* infoLines and seen are locals of the call
extractCall(history, c, max) == extractKeyLines(c, max)

InitSession ==
    /\ calls = <<>>
    /\ AnalyzerIdle
    /\ ExtractorIdle
    /\ PacketIdle
    /\ AggregatorIdle
    /\ FetchIdle
    /\ ShellIdle

CallAnalyze(l, f) ==
    /\ Len(calls) < MaxSessionCalls
    /\ calls' = Append(calls, [op |-> "analyze", log |-> l, arg |-> f,
                               result |-> analyzeCall(calls, f, TextOf(l))])
    /\ UNCHANGED <<analyzerVars, extractorVars, packetVars, aggregatorVars,
                   userVars, fetchVars, shellVars>>

CallExtractKeyLines(l, max) ==
    /\ Len(calls) < MaxSessionCalls
    /\ calls' = Append(calls, [op |-> "extract", log |-> l, arg |-> max,
                               result |-> extractCall(calls, TextOf(l), max)])
    /\ UNCHANGED <<analyzerVars, extractorVars, packetVars, aggregatorVars,
                   userVars, fetchVars, shellVars>>

NextSession ==
    \E l \in SessionLogs :
        \/ \E f \in Filenames : CallAnalyze(l, f)
        \/ \E max \in SessionMaxLines : CallExtractKeyLines(l, max)

SpecSession == InitSession /\ [][NextSession]_vars

SameCall(x, y) ==
    x.op = y.op /\ x.arg = y.arg /\ TextOf(x.log) = TextOf(y.log)

AloneResult(x) ==
    IF x.op = "analyze"
    THEN LET expected ==
                 [filename |-> x.arg,
                  hasErrors |-> \E i \in 1..Len(x.log) : x.log[i].cats # {},
                  exceptions |-> ExpectedBucket(x.log, "exceptions"),
                  fatalErrors |-> ExpectedBucket(x.log, "fatalErrors"),
                  limitIssues |-> ExpectedBucket(x.log, "limitIssues"),
                  flowErrors |-> ExpectedBucket(x.log, "flowErrors"),
                  validationErrors |-> ExpectedBucket(x.log, "validationErrors"),
                  summary |-> ""]
         IN  [expected EXCEPT !.summary = ExpectedSummary(expected, 1, TRUE)]
    ELSE LET all == DistinctOfTier(x.log, "error", {})
                        \o DistinctOfTier(x.log, "info", {})
         IN  SubSeq(all, 1, Min(x.arg, Len(all)))

\* C19: whatever calls were made before it, on whatever logs, a call gives
\* what it gives for its log alone; in particular a line reported for one
\* log is reported again for the next log that holds it
C19_LogsAreIndependent ==
    \A i \in 1..Len(calls) : calls[i].result = AloneResult(calls[i])

\* two logs holding the same exception line, extracted one after the other:
\* the line is in both results
C19_Witness ==
    /\ Len(calls) >= 2
    /\ calls[1].op = "extract" /\ calls[2].op = "extract"
    /\ calls[1].log # calls[2].log
    /\ calls[1].result[1] = "09:00|EXCEPTION_THROWN|e"
    /\ calls[2].result[1] = "09:00|EXCEPTION_THROWN|e"

-----------------------------------------------------------------------------
(* User context and log fetching: getCurrentUser with its cache, and       *)
(* fetchLogs.  The environment is the user the Salesforce CLI is logged in *)
(* as, who may change at any time, and the clock.  An absent field of a    *)
(* query record is the empty string or 0, which the code treats alike.     *)

\* most clock steps of a behaviour
MaxTicks == 3

\* most records the query layer returns
MaxRecords == 2

CACHE_TTL_MS == 5 * 60 * 1000

\* the clock is observed in steps of half the cache's time to live
TickMs == CACHE_TTL_MS \div 2

Users == {"005A", "005B"}

\* what `sf org display user --json` gives for a user
UserInfoOf(u) ==
    [orgAlias |-> "", username |-> u \o "@example.org", userId |-> u]

QueryRecord(id, user) ==
    [Id |-> id, LogUserId |-> user, Operation |-> "",
     StartTime |-> "2026-01-01T00:00:00.000+0000",
     DurationMilliseconds |-> 0, LogLength |-> 1024]

QueryRecords ==
    {QueryRecord(id, user) : id \in {"07L1", ""}, user \in Users \cup {""}}

QueryResults == UNION {[1..n -> QueryRecords] : n \in 0..MaxRecords}

\* the test of getCurrentUser with <= in place of <
cacheValidInclusive(t) ==
    cachedUserInfo # None /\ t - cacheTimestamp <= CACHE_TTL_MS

\* getCurrentUser: the cached value is returned
cacheValid(t) ==
    cachedUserInfo # None /\ t - cacheTimestamp < CACHE_TTL_MS

\* the defensive checks of the loop over result.records
keepRecord(record, userId) ==
    /\ record.LogUserId = userId
    /\ record.Id # ""

toLogEntry(record, userId) ==
    [id |-> record.Id,
     logUserId |-> IF record.LogUserId # "" THEN record.LogUserId ELSE userId,
     operation |-> IF record.Operation # "" THEN record.Operation ELSE "Unknown",
     startTime |-> record.StartTime,
     durationMilliseconds |-> record.DurationMilliseconds,
     logLength |-> record.LogLength]

RECURSIVE filterRecords(_, _)
\* for (const record of result.records || [])
filterRecords(records, userId) ==
    IF records = <<>> THEN <<>>
    ELSE (IF keepRecord(Head(records), userId)
          THEN <<toLogEntry(Head(records), userId)>>
          ELSE <<>>) \o filterRecords(Tail(records), userId)

InitFetch ==
    /\ cliUser \in Users
    /\ clock = 0
    /\ cachedUserInfo = None
    /\ cacheTimestamp = 0
    /\ fetch = [pc |-> "idle", now |-> 0, userId |-> "", usersDuring |-> {},
                fromCache |-> FALSE, records |-> <<>>, outcome |-> None]
    /\ AnalyzerIdle
    /\ ExtractorIdle
    /\ PacketIdle
    /\ AggregatorIdle
    /\ SessionIdle
    /\ ShellIdle

OthersUnchanged ==
    UNCHANGED <<analyzerVars, extractorVars, packetVars, aggregatorVars,
                sessionVars, shellVars>>

InCall == fetch.pc \in {"cli", "query"}

\* the CLI is logged in as another user (sf org login, sf config set
\* target-org), outside the extension
SwitchUser(u) ==
    /\ fetch # None
    /\ u # cliUser
    /\ cliUser' = u
    /\ fetch' = IF InCall
                THEN [fetch EXCEPT !.usersDuring = @ \cup {u}]
                ELSE fetch
    /\ UNCHANGED <<clock, cachedUserInfo, cacheTimestamp>>
    /\ OthersUnchanged

Tick ==
    /\ fetch # None
    /\ clock < MaxTicks * TickMs
    /\ clock' = clock + TickMs
    /\ UNCHANGED <<cliUser, cachedUserInfo, cacheTimestamp, fetch>>
    /\ OthersUnchanged

\* fetchLogs is called: getSFCLILoggedInUserId and getCurrentUser up to the
\* cached return or the await of getLoggedInUser
FetchLogsCall ==
    /\ fetch # None
    /\ fetch.pc \in {"idle", "done"}
    /\ fetch' = IF cacheValid(clock)
                THEN [pc |-> "query", now |-> clock,
                      userId |-> cachedUserInfo.userId,
                      usersDuring |-> {cliUser}, fromCache |-> TRUE,
                      records |-> <<>>, outcome |-> None]
                ELSE [pc |-> "cli", now |-> clock, userId |-> "",
                      usersDuring |-> {cliUser}, fromCache |-> FALSE,
                      records |-> <<>>, outcome |-> None]
    /\ UNCHANGED <<cliUser, clock, cachedUserInfo, cacheTimestamp>>
    /\ OthersUnchanged

\* getLoggedInUser resolves: the cache is filled and stamped with the time
\* read before the CLI call
CliReturns ==
    /\ fetch # None
    /\ fetch.pc = "cli"
    /\ cachedUserInfo' = UserInfoOf(cliUser)
    /\ cacheTimestamp' = fetch.now
    /\ fetch' = [fetch EXCEPT !.pc = "query", !.userId = cliUser]
    /\ UNCHANGED <<cliUser, clock>>
    /\ OthersUnchanged

\* getLoggedInUser rejects: the error is shown and rethrown
CliFails ==
    /\ fetch # None
    /\ fetch.pc = "cli"
    /\ fetch' = [fetch EXCEPT !.pc = "done",
                              !.outcome = [kind |-> "throw", value |-> "cli"]]
    /\ UNCHANGED <<cliUser, clock, cachedUserInfo, cacheTimestamp>>
    /\ OthersUnchanged

\* queryApexLogs resolves with whatever records the query layer gives
QueryReturns(records) ==
    /\ fetch # None
    /\ fetch.pc = "query"
    /\ fetch' = [fetch EXCEPT !.pc = "done", !.records = records,
                              !.outcome = Return(filterRecords(records,
                                                               fetch.userId))]
    /\ UNCHANGED <<cliUser, clock, cachedUserInfo, cacheTimestamp>>
    /\ OthersUnchanged

\* queryApexLogs rejects
QueryFails ==
    /\ fetch # None
    /\ fetch.pc = "query"
    /\ fetch' = [fetch EXCEPT !.pc = "done",
                              !.outcome = [kind |-> "throw",
                                           value |-> "Failed to query logs"]]
    /\ UNCHANGED <<cliUser, clock, cachedUserInfo, cacheTimestamp>>
    /\ OthersUnchanged

NextFetch ==
    \/ \E u \in Users : SwitchUser(u)
    \/ Tick
    \/ FetchLogsCall
    \/ CliReturns
    \/ CliFails
    \/ \E records \in QueryResults : QueryReturns(records)
    \/ QueryFails

SpecFetch == InitFetch /\ [][NextFetch]_vars

Fetched == fetch # None /\ fetch.outcome # None /\ fetch.outcome.kind = "return"

\* C20: every entry fetchLogs returns has the logUserId of the user the CLI
\* was logged in as during the call, whatever records the query gave
C20_OnlyLoggedInUser ==
    Fetched =>
        \A i \in 1..Len(fetch.outcome.value) :
            fetch.outcome.value[i].logUserId \in fetch.usersDuring

-----------------------------------------------------------------------------
(* userContext: getCurrentUser and clearUserCache, with calls that overlap *)

\* getCurrentUser calls made in one behaviour
MaxUserCalls == 3

\* clearUserCache calls made in one behaviour
MaxClears == 1

IdleFetch ==
    [pc |-> "idle", now |-> 0, userId |-> "", usersDuring |-> {},
     fromCache |-> FALSE, records |-> <<>>, outcome |-> None]

NoHistory == [lastFetch |-> None, cleared |-> FALSE, clears |-> 0]

InitUserCache ==
    /\ cliUser \in Users
    /\ clock = 0
    /\ cachedUserInfo = None
    /\ cacheTimestamp = 0
    /\ fetch = IdleFetch
    /\ userCalls = <<>>
    /\ cacheHistory = NoHistory
    /\ AnalyzerIdle
    /\ ExtractorIdle
    /\ PacketIdle
    /\ AggregatorIdle
    /\ SessionIdle
    /\ TreeIdle
    /\ BackgroundIdle
    /\ TraceIdle

UserCacheOthersUnchanged ==
    UNCHANGED <<analyzerVars, extractorVars, packetVars, aggregatorVars,
                sessionVars, fetchVars, treeVars, backgroundVars, traceVars>>

\* getCurrentUser up to its first await: Date.now(), the test of the cache,
\* and either the return of the cached value or the call of getLoggedInUser
getCurrentUserEnter(t) ==
    IF cacheValid(t)
    THEN [pc |-> "done", now |-> t, viaCli |-> FALSE,
          outcome |-> [kind |-> "ok", value |-> cachedUserInfo]]
    ELSE [pc |-> "cli", now |-> t, viaCli |-> TRUE, outcome |-> None]

\* what the history adds to a call: the history when it started, and the
\* clear count under which the value it returns was obtained from the CLI
Started(call) ==
    [pc |-> call.pc, now |-> call.now, viaCli |-> call.viaCli,
     outcome |-> call.outcome,
     before |-> cacheHistory,
     origin |-> IF call.pc = "done" THEN cacheHistory.lastFetch.clears
                ELSE cacheHistory.clears]

GetCurrentUserCall ==
    /\ Len(userCalls) < MaxUserCalls
    /\ userCalls' = Append(userCalls, Started(getCurrentUserEnter(clock)))
    /\ UNCHANGED <<cliUser, clock, cachedUserInfo, cacheTimestamp, cacheHistory>>
    /\ UserCacheOthersUnchanged

\* getLoggedInUser resolves: cachedUserInfo and cacheTimestamp are assigned
\* and the value is returned
GetLoggedInUserResolves(i) ==
    /\ i \in 1..Len(userCalls)
    /\ userCalls[i].pc = "cli"
    /\ cachedUserInfo' = UserInfoOf(cliUser)
    /\ cacheTimestamp' = userCalls[i].now
    /\ userCalls' = [userCalls EXCEPT
                       ![i].pc = "done",
                       ![i].outcome = [kind |-> "ok", value |-> UserInfoOf(cliUser)]]
    /\ cacheHistory' = [cacheHistory EXCEPT
                          !.lastFetch = [kind |-> "fetch",
                                         value |-> UserInfoOf(cliUser),
                                         at |-> userCalls[i].now,
                                         clears |-> userCalls[i].origin],
                          !.cleared = FALSE]
    /\ UNCHANGED <<cliUser, clock>>
    /\ UserCacheOthersUnchanged

\* getLoggedInUser rejects: the error is shown and thrown again
GetLoggedInUserRejects(i) ==
    /\ i \in 1..Len(userCalls)
    /\ userCalls[i].pc = "cli"
    /\ userCalls' = [userCalls EXCEPT
                       ![i].pc = "done",
                       ![i].outcome = [kind |-> "error"]]
    /\ UNCHANGED <<cliUser, clock, cachedUserInfo, cacheTimestamp, cacheHistory>>
    /\ UserCacheOthersUnchanged

ClearUserCache ==
    /\ cacheHistory.clears < MaxClears
    /\ cachedUserInfo' = None
    /\ cacheTimestamp' = 0
    /\ cacheHistory' = [cacheHistory EXCEPT !.cleared = TRUE, !.clears = @ + 1]
    /\ UNCHANGED <<cliUser, clock, userCalls>>
    /\ UserCacheOthersUnchanged

NextUserCache ==
    \/ GetCurrentUserCall
    \/ \E i \in 1..MaxUserCalls : GetLoggedInUserResolves(i)
    \/ \E i \in 1..MaxUserCalls : GetLoggedInUserRejects(i)
    \/ ClearUserCache
    \/ \E u \in Users : SwitchUser(u)
    \/ Tick

SpecUserCache == InitUserCache /\ [][NextUserCache]_vars

\* the last successful fetch is still fresh for a call that reads the clock
\* at t: it exists, no clearUserCache came after it, and fewer than five
\* minutes lie between the clock reading of the fetch and t
Fresh(h, t) ==
    /\ h.lastFetch # None
    /\ ~h.cleared
    /\ t - h.lastFetch.at < 5 * 60 * 1000

C29_ClearCoversPendingFetch ==
    \A i \in 1..Len(userCalls) :
        LET call == userCalls[i] IN
        (call.pc = "done" /\ call.outcome.kind = "ok" /\ call.before.clears > 0)
            => call.origin >= call.before.clears

-----------------------------------------------------------------------------
(* LogTreeDataProvider: refresh and getLogs *)

\* longest batch given to refresh
MaxBatch == 4

\* what stands for NaN; the times of the model are not negative
NaN == 0 - 1

\* new Date(startTime).getTime() for the timestamps of the model, which
\* are of one day: the milliseconds since its midnight, NaN for a text
\* that is no date
getTime(startTime) ==
    IF Len(startTime) # 28 THEN NaN
    ELSE ((parseInt(SubSeq(startTime, 12, 13)) * 60
            + parseInt(SubSeq(startTime, 15, 16))) * 60
            + parseInt(SubSeq(startTime, 18, 19))) * 1000
         + parseInt(SubSeq(startTime, 21, 23))

\* the comparator of refresh, timeB - timeA, for two times that are
\* numbers; it gives NaN when one of them is NaN
compare(a, b) == getTime(b.startTime) - getTime(a.startTime)

isNaN(x) == x = NaN

RECURSIVE insert(_, _)
\* the place a stable sort gives x among the sorted xs
insert(xs, x) ==
    IF xs = <<>> THEN <<x>>
    ELSE IF compare(Head(xs), x) > 0 THEN <<x>> \o xs
    ELSE <<Head(xs)>> \o insert(Tail(xs), x)

RECURSIVE stableSort(_)
stableSort(xs) ==
    IF xs = <<>> THEN <<>>
    ELSE insert(stableSort(SubSeq(xs, 1, Len(xs) - 1)), xs[Len(xs)])

Orderings(xs) ==
    {ys \in [1..Len(xs) -> {xs[i] : i \in 1..Len(xs)}] :
        \A i \in 1..Len(xs) :
            Cardinality({j \in 1..Len(xs) : ys[j] = xs[i]})
                = Cardinality({j \in 1..Len(xs) : xs[j] = xs[i]})}

\* Array.prototype.sort(comparator): the sorted array when the comparator
\* is consistent, an order the implementation chooses when it is not
\* (a NaN result)
sorted(xs) ==
    IF \A i \in 1..Len(xs) : ~isNaN(getTime(xs[i].startTime))
    THEN {stableSort(xs)}
    ELSE Orderings(xs)

ids(xs) == {xs[i].id : i \in 1..Len(xs)}

\* logs.filter(log => !existingLogIds.has(log.id))
newLogsOf(existing, batch) ==
    SelectSeq(batch, LAMBDA log : log.id \notin ids(existing))

\* this.logs after the branches of refresh and before its sort
assigned(which, existing, batch, replace) ==
    IF batch.kind = "undefined" THEN existing
    ELSE IF which = "part_001" /\ replace THEN batch.value
    ELSE IF newLogsOf(existing, batch.value) # <<>>
    THEN existing \o newLogsOf(existing, batch.value)
    ELSE IF batch.value # <<>> THEN batch.value
    ELSE IF which = "part_001" THEN batch.value
    ELSE existing

\* whether refresh sorts this.logs: always in the class of part_001, only
\* after a merge in the class of diagnostics.ts
sorts(which, existing, batch) ==
    \/ which = "part_001"
    \/ batch.kind = "array" /\ newLogsOf(existing, batch.value) # <<>>

\* the values this.logs can have after refresh(batch, replace)
refresh(which, existing, batch, replace) ==
    IF sorts(which, existing, batch)
    THEN sorted(assigned(which, existing, batch, replace))
    ELSE {assigned(which, existing, batch, replace)}

ApexLogEntry(id, startTime) == [id |-> id, startTime |-> startTime]

\* the entries fetchLogs can give; a record without StartTime gives ''
LogEntries ==
    { ApexLogEntry("07L1", "2026-01-01T10:01:00.000+0000"),
      ApexLogEntry("07L2", "2026-01-01T10:02:00.000+0000"),
      ApexLogEntry("07L3", "2026-01-01T10:03:30.500+0000"),
      ApexLogEntry("07L4", "") }

\* the batches, each with pairwise distinct ids, and undefined
Batches ==
    {[kind |-> "undefined"]} \cup
    {[kind |-> "array", value |-> b] :
        b \in UNION {{c \in [1..n -> LogEntries] :
                         \A i, j \in 1..n : i # j => c[i].id # c[j].id} :
                     n \in 0..MaxBatch}}

Providers == {"part_001", "diagnostics.ts"}

InitLogTree ==
    /\ provider \in Providers
    /\ logs = <<>>
    /\ AnalyzerIdle
    /\ ExtractorIdle
    /\ PacketIdle
    /\ AggregatorIdle
    /\ SessionIdle
    /\ FetchIdle
    /\ UserCallsIdle
    /\ BackgroundIdle
    /\ TraceIdle

Refresh(batch, replace) ==
    /\ provider \in Providers
    /\ replace => provider = "part_001"
    /\ logs' \in refresh(provider, logs, batch, replace)
    /\ UNCHANGED <<provider, analyzerVars, extractorVars, packetVars,
                   aggregatorVars, sessionVars, userVars, fetchVars,
                   userCallVars, backgroundVars, traceVars>>

NextLogTree == \E batch \in Batches, replace \in BOOLEAN : Refresh(batch, replace)

SpecLogTree == InitLogTree /\ [][NextLogTree]_vars

getLogs == logs

\* C23: after any sequence of refresh calls with batches of pairwise
\* distinct ids, getLogs() holds no id twice and is ordered by startTime,
\* newest first.
C23_UniqueNewestFirst ==
    \A i, j \in 1..Len(getLogs) :
        i < j =>
            /\ getLogs[i].id # getLogs[j].id
            /\ (~isNaN(getTime(getLogs[i].startTime))
                    /\ ~isNaN(getTime(getLogs[j].startTime)))
                  => getTime(getLogs[i].startTime) >= getTime(getLogs[j].startTime)

-----------------------------------------------------------------------------
(* backgroundTask: startBackgroundTask, stopBackgroundTask, the timer       *)
(* callbacks and resumeBackgroundTaskIfNeeded                               *)

BACKGROUND_FETCH_INTERVAL_MS == 2 * 60 * 1000

\* the delay of the initial fetch, which is also the step of the clock
InitialFetchDelayMs == 30000

\* default of globalState.get('debugforce.traceDurationMinutes', 30)
DefaultTraceDurationMinutes == 30

\* startBackgroundTask calls made in one behaviour
MaxStarts == 2

\* steps of the clock in one behaviour
MaxBgSteps == 12

\* Date.now() when the extension is activated
ActivationTime == 4 * InitialFetchDelayMs

MaxBgClock == ActivationTime + MaxBgSteps * InitialFetchDelayMs

\* the trace durations given to startBackgroundTask, in minutes
TraceMinutes == {1, 3}

\* globalState with both keys undefined (0 stands for undefined)
NothingStored == [setupTimestamp |-> 0, traceDurationMinutes |-> 0]

\* what an earlier session can have left in globalState: nothing, a trace
\* that has expired at activation, a trace that has not
StoredAtActivation ==
    { NothingStored,
      [setupTimestamp |-> ActivationTime - 3 * InitialFetchDelayMs,
       traceDurationMinutes |-> 1],
      [setupTimestamp |-> ActivationTime - InitialFetchDelayMs,
       traceDurationMinutes |-> 1] }

InitBackground ==
    /\ clock = ActivationTime
    /\ backgroundInterval = 0
    /\ setupTimestamp = 0
    /\ traceDurationMinutes = 30
    /\ globalState \in StoredAtActivation
    /\ timers = {}
    /\ ticks = {}
    /\ started = <<>>
    /\ cliUser = ""
    /\ cachedUserInfo = None
    /\ cacheTimestamp = 0
    /\ fetch = None
    /\ AnalyzerIdle
    /\ ExtractorIdle
    /\ PacketIdle
    /\ AggregatorIdle
    /\ SessionIdle
    /\ UserCallsIdle
    /\ TreeIdle
    /\ TraceIdle

BackgroundOthersUnchanged ==
    UNCHANGED <<analyzerVars, extractorVars, packetVars, aggregatorVars,
                sessionVars, cliUser, cachedUserInfo, cacheTimestamp,
                fetchVars, userCallVars, treeVars, traceVars>>

isBackgroundTaskRunning == backgroundInterval # 0

\* clearInterval(backgroundInterval), when backgroundInterval is set
clearInterval(pending) ==
    {t \in pending : ~(t.kind = "interval" /\ t.task = backgroundInterval)}

\* the time a task started at t with m minutes needs to expire and to
\* meet its next interval tick lies within the clock of the model
FitsTheClock(t, m) ==
    t + m * 60 * 1000 + BACKGROUND_FETCH_INTERVAL_MS <= MaxBgClock

\* startBackgroundTask(context, outputChannel, logTreeProvider, traceMinutes)
startBackgroundTask(traceMinutes, via) ==
    LET task == Len(started) + 1 IN
    /\ backgroundInterval' = task
    /\ setupTimestamp' = clock
    /\ traceDurationMinutes' = traceMinutes
    /\ globalState' = [setupTimestamp |-> clock,
                       traceDurationMinutes |-> traceMinutes]
    /\ timers' = clearInterval(timers) \cup
                 { [kind |-> "interval", task |-> task,
                    due |-> clock + BACKGROUND_FETCH_INTERVAL_MS],
                   [kind |-> "timeout", task |-> task,
                    due |-> clock + InitialFetchDelayMs] }
    /\ started' = Append(started, [at |-> clock, via |-> via, stored |-> globalState])

StartBackgroundTask(traceMinutes) ==
    /\ Len(started) < MaxStarts
    /\ FitsTheClock(clock, traceMinutes)
    /\ startBackgroundTask(traceMinutes, "call")
    /\ UNCHANGED <<clock, ticks>>
    /\ BackgroundOthersUnchanged

StopBackgroundTask ==
    /\ timers' = clearInterval(timers)
    /\ backgroundInterval' = 0
    /\ setupTimestamp' = 0
    /\ UNCHANGED <<clock, traceDurationMinutes, globalState, ticks, started>>
    /\ BackgroundOthersUnchanged

storedDuration ==
    IF globalState.traceDurationMinutes = 0 THEN DefaultTraceDurationMinutes
    ELSE globalState.traceDurationMinutes

\* performBackgroundFetch with a fault: the expiry test is missing
traceExpiredNever == FALSE

\* elapsedMinutes >= storedDuration, guarded by if (storedTimestamp)
traceExpired ==
    /\ globalState.setupTimestamp # 0
    /\ clock - globalState.setupTimestamp >= storedDuration * 60 * 1000

\* elapsedMinutes >= storedDuration in resumeBackgroundTaskIfNeeded
resumeExpired ==
    clock - globalState.setupTimestamp >= storedDuration * 60 * 1000

\* the callback of a timer: performBackgroundFetch up to its call of
\* fetchLogs, or up to its return when the trace has expired; rest holds
\* the timers the firing itself leaves pending
performBackgroundFetch(timer, rest) ==
    /\ ticks' = ticks \cup
                { [task |-> timer.task, via |-> timer.kind, at |-> clock,
                   running |-> backgroundInterval,
                   setupTimestamp |-> setupTimestamp,
                   traceDurationMinutes |-> traceDurationMinutes,
                   queried |-> ~traceExpired,
                   runningAfter |-> IF traceExpired THEN 0 ELSE backgroundInterval] }
    /\ IF traceExpired
       THEN /\ timers' = {t \in rest : ~(t.kind = "interval" /\ t.task = backgroundInterval)}
            /\ backgroundInterval' = 0
            /\ setupTimestamp' = 0
       ELSE /\ timers' = rest
            /\ UNCHANGED <<backgroundInterval, setupTimestamp>>
    /\ UNCHANGED <<clock, traceDurationMinutes, globalState, started>>
    /\ BackgroundOthersUnchanged

\* the setInterval timer fires and is due again after the interval
IntervalFires(timer) ==
    /\ timer \in timers
    /\ timer.kind = "interval"
    /\ timer.due <= clock
    /\ performBackgroundFetch(timer,
           (timers \ {timer}) \cup
               {[timer EXCEPT !.due = @ + BACKGROUND_FETCH_INTERVAL_MS]})

\* the setTimeout timer of the initial fetch fires
TimeoutFires(timer) ==
    /\ timer \in timers
    /\ timer.kind = "timeout"
    /\ timer.due <= clock
    /\ performBackgroundFetch(timer, timers \ {timer})

\* resumeBackgroundTaskIfNeeded, called when the extension is activated
ResumeBackgroundTaskIfNeeded ==
    /\ started = <<>>
    /\ backgroundInterval = 0
    /\ FitsTheClock(clock, storedDuration)
    /\ IF globalState.setupTimestamp = 0
       THEN UNCHANGED <<backgroundVars>>
       ELSE IF resumeExpired
       THEN /\ globalState' = NothingStored
            /\ UNCHANGED <<backgroundInterval, setupTimestamp,
                           traceDurationMinutes, timers, started>>
       ELSE startBackgroundTask(storedDuration, "resume")
    /\ UNCHANGED <<clock, ticks>>
    /\ BackgroundOthersUnchanged

\* time passes; a timer that is due fires before the clock moves on
AdvanceClock ==
    /\ clock < MaxBgClock
    /\ \A t \in timers : t.due > clock
    /\ clock' = clock + InitialFetchDelayMs
    /\ UNCHANGED <<backgroundVars>>
    /\ BackgroundOthersUnchanged

TimerSlots ==
    [kind : {"interval", "timeout"}, task : 1..MaxStarts,
     due : {ActivationTime + k * InitialFetchDelayMs : k \in 0..MaxBgSteps}]

NextBackground ==
    \/ \E m \in TraceMinutes : StartBackgroundTask(m)
    \/ StopBackgroundTask
    \/ \E timer \in TimerSlots : IntervalFires(timer)
    \/ \E timer \in TimerSlots : TimeoutFires(timer)
    \/ ResumeBackgroundTaskIfNeeded
    \/ AdvanceClock

SpecBackground == InitBackground /\ [][NextBackground]_vars

\* C24: every background fetch that queries for logs was scheduled by the
\* task that is running when it fires, the most recently started one and
\* not stopped, and between a stop and the next start
\* isBackgroundTaskRunning() is false.
C24_FetchesOfRunningTaskOnly ==
    /\ \A t \in ticks : t.queried => t.task = t.running
    /\ setupTimestamp = 0 => ~isBackgroundTaskRunning

\* the timers fire when they are due and time passes
SpecBackgroundFair ==
    /\ SpecBackground
    /\ WF_vars(AdvanceClock)
    /\ WF_vars(\E timer \in TimerSlots : IntervalFires(timer))
    /\ WF_vars(\E timer \in TimerSlots : TimeoutFires(timer))

\* at time t at least minutes have elapsed since the setup timestamp
ElapsedSince(setupAt, minutes, t) ==
    setupAt # 0 /\ t - setupAt >= minutes * 60 * 1000

TickAfterExpiry(t) ==
    ElapsedSince(t.setupTimestamp, t.traceDurationMinutes, t.at)

TraceHasExpired == ElapsedSince(setupTimestamp, traceDurationMinutes, clock)

NoQueryAfterExpiry ==
    \A t \in ticks : TickAfterExpiry(t) => ~t.queried /\ t.runningAfter = 0

ResumedOnlyUnexpired ==
    \A i \in 1..Len(started) :
        started[i].via = "resume" =>
            /\ started[i].stored.setupTimestamp # 0
            /\ ~ElapsedSince(started[i].stored.setupTimestamp,
                             started[i].stored.traceDurationMinutes,
                             started[i].at)

\* C25: a background tick that comes when traceDurationMinutes or more
\* have elapsed since the setup timestamp queries for no logs and stops the
\* task, so a running task whose trace has expired eventually stops; and
\* resumeBackgroundTaskIfNeeded starts the task only when the stored trace
\* has not expired.
C25_StopsAfterExpiry ==
    /\ []NoQueryAfterExpiry
    /\ []ResumedOnlyUnexpired
    /\ (isBackgroundTaskRunning /\ TraceHasExpired) ~> ~isBackgroundTaskRunning

\* a task resumed at activation was stopped by its own interval tick, which
\* came after the expiry of the trace and queried for no logs
C25_Witness ==
    /\ Len(started) = 1
    /\ started[1].via = "resume"
    /\ ~isBackgroundTaskRunning
    /\ \E t \in ticks :
          /\ t.via = "interval"
          /\ TickAfterExpiry(t)
          /\ t.running = 1
          /\ t.runningAfter = 0

-----------------------------------------------------------------------------
(* traceFlags: setupDebugLogging and cleanupTraceFlags against the org *)

\* DEVELOPER_LOG TraceFlags the user has in the org before the call
MaxTraceFlags == 3

ExistingFlagIds == {"7tf" \o ToString(n) : n \in 1..MaxTraceFlags}

NewFlagId == "7tfNew"

InitTraceFlags ==
    /\ traceFlags \in SUBSET ExistingFlagIds
    /\ setup = [pc |-> "idle", before |-> {}, records |-> <<>>,
                atCreate |-> {}, created |-> "", outcome |-> None]
    /\ AnalyzerIdle
    /\ ExtractorIdle
    /\ PacketIdle
    /\ AggregatorIdle
    /\ SessionIdle
    /\ FetchIdle
    /\ UserCallsIdle
    /\ TreeIdle
    /\ BackgroundIdle

TraceOthersUnchanged ==
    UNCHANGED <<analyzerVars, extractorVars, packetVars, aggregatorVars,
                sessionVars, userVars, fetchVars, userCallVars, treeVars,
                backgroundVars>>

\* the call setupDebugLogging(userId, traceMinutes): the DebugLevel query
\* is sent
SetupDebugLogging ==
    /\ setup.pc = "idle"
    /\ setup' = [setup EXCEPT !.pc = "debugLevel", !.before = traceFlags]
    /\ UNCHANGED traceFlags
    /\ TraceOthersUnchanged

\* step 1 ends with a debugLevelId, found or created; cleanupTraceFlags
\* sends its query
DebugLevelReady ==
    /\ setup.pc = "debugLevel"
    /\ setup' = [setup EXCEPT !.pc = "cleanupQuery"]
    /\ UNCHANGED traceFlags
    /\ TraceOthersUnchanged

\* createDebugLevel throws
DebugLevelFails ==
    /\ setup.pc = "debugLevel"
    /\ setup' = [setup EXCEPT !.pc = "done", !.outcome = [kind |-> "error"]]
    /\ UNCHANGED traceFlags
    /\ TraceOthersUnchanged

\* the query of cleanupTraceFlags answers with the user's TraceFlags
CleanupQueryReturns ==
    /\ setup.pc = "cleanupQuery"
    /\ setup' = [setup EXCEPT !.pc = IF traceFlags = {} THEN "create" ELSE "delete",
                              !.records = sort(traceFlags)]
    /\ UNCHANGED traceFlags
    /\ TraceOthersUnchanged

\* the query fails (query.success is false) or its output is no JSON:
\* cleanupTraceFlags returns without deleting
CleanupQueryFails ==
    /\ setup.pc = "cleanupQuery"
    /\ setup' = [setup EXCEPT !.pc = "create"]
    /\ UNCHANGED traceFlags
    /\ TraceOthersUnchanged

\* cleanupTraceFlags after the delete of records[1], whose result it does
\* not read
afterDelete ==
    [setup EXCEPT !.records = Tail(@),
                  !.pc = IF Len(setup.records) = 1 THEN "create" ELSE "delete"]

\* sf data delete record succeeds
DeleteSucceeds ==
    /\ setup.pc = "delete"
    /\ traceFlags' = traceFlags \ {Head(setup.records)}
    /\ setup' = afterDelete
    /\ TraceOthersUnchanged

\* sf data delete record fails
DeleteFails ==
    /\ setup.pc = "delete"
    /\ setup' = afterDelete
    /\ UNCHANGED traceFlags
    /\ TraceOthersUnchanged

\* sf data create record succeeds: setupDebugLogging completes
CreateSucceeds ==
    /\ setup.pc = "create"
    /\ traceFlags' = traceFlags \cup {NewFlagId}
    /\ setup' = [setup EXCEPT !.pc = "done", !.atCreate = traceFlags,
                              !.created = NewFlagId,
                              !.outcome = [kind |-> "ok"]]
    /\ TraceOthersUnchanged

\* sf data create record fails: setupDebugLogging throws
CreateFails ==
    /\ setup.pc = "create"
    /\ setup' = [setup EXCEPT !.pc = "done", !.atCreate = traceFlags,
                              !.outcome = [kind |-> "error"]]
    /\ UNCHANGED traceFlags
    /\ TraceOthersUnchanged

NextTraceFlags ==
    \/ SetupDebugLogging
    \/ DebugLevelReady
    \/ DebugLevelFails
    \/ CleanupQueryReturns
    \/ CleanupQueryFails
    \/ DeleteSucceeds
    \/ DeleteFails
    \/ CreateSucceeds
    \/ CreateFails

SpecTraceFlags == InitTraceFlags /\ [][NextTraceFlags]_vars

\* C26: when setupDebugLogging completes without error the user has exactly
\* one DEVELOPER_LOG TraceFlag, the new one, and every TraceFlag the user
\* had before the call was deleted before the new one was created.
C26_OnlyTheNewTraceFlag ==
    (setup.pc = "done" /\ setup.outcome.kind = "ok") =>
        /\ traceFlags = {setup.created}
        /\ setup.before \cap setup.atCreate = {}

====
